---- MODULE Spec2Model ----
(***************************************************************************)
(* Verification model of the Stellar-Save ROSCA contract                   *)
(* (contracts/stellar-save/src).                                           *)
(*                                                                         *)
(* Twelve specifications share the variables below:                        *)
(*   SpecValue    - a Group value and a status::GroupStatus value driven   *)
(*                  by the value-level methods (group.rs, status.rs,       *)
(*                  cycle_advancement.rs), and the pool arithmetic of      *)
(*                  pool.rs;                                               *)
(*   SpecLedger   - the contribution ledger driven by record_contribution; *)
(*   Spec         - the contract storage driven by the group lifecycle     *)
(*                  entry points of lib.rs;                                *)
(*   SpecMembers  - one group joined, updated, given payout positions and  *)
(*                  deleted while its status record moves;                 *)
(*   SpecIds      - several groups created, joined and deleted;            *)
(*   SpecWithdraw - contributions, payouts, cycle advancement and          *)
(*                  emergency withdrawals of one group;                    *)
(*   SpecAssign   - one group whose members join, withdraw and join again, *)
(*                  and whose payout positions are assigned;               *)
(*   SpecQueries  - one group that is activated, contributed to and paid,  *)
(*                  and is_payout_due;                                     *)
(*   SpecHistory  - contributions over the cycles of one group, and        *)
(*                  get_member_contribution_history;                       *)
(*   SpecShuffle  - shuffle applied to a list of positions under every     *)
(*                  seed;                                                  *)
(*   SpecDeadline - one group with a short or a very long cycle, and       *)
(*                  get_contribution_deadline;                             *)
(*   SpecPayoutOrder - one group with positions, payouts and a status, and *)
(*                  get_payout_queue, validate_payout_recipient and        *)
(*                  is_complete.                                           *)
(*                                                                         *)
(* An absent storage entry (Option::None) is the empty sequence, a present *)
(* one is a one-element sequence.                                          *)
(***************************************************************************)
EXTENDS Integers, Sequences, FiniteSets, TLC

VARIABLES
    next_group_id,              \* StorageKey::Counter(NextGroupId), 0 when unset
    group_data,                 \* group id -> Option<Group>
    group_status,               \* group id -> Option<GroupStatus>
    group_members,              \* group id -> Option<Vec<Address>>
    member_profile,             \* <<group id, address>> -> Option<MemberProfile>
    member_payout_eligibility,  \* <<group id, address>> -> Option<u32>
    contribution_individual,    \* <<group id, cycle, address>> -> Option<ContributionRecord>
    contribution_cycle_total,   \* <<group id, cycle>> -> Option<i128>
    contribution_cycle_count,   \* <<group id, cycle>> -> Option<u32>
    payout_recipient,           \* <<group id, cycle>> -> Option<Address>
    now,                        \* env.ledger().timestamp()
    group_value,                \* a Group value held by a caller (SpecValue)
    status_value,               \* a status::GroupStatus value held by a caller (SpecValue)
    last                        \* the last call: its name, arguments, result and event

storage ==
    << next_group_id, group_data, group_status, group_members, member_profile,
       member_payout_eligibility, contribution_individual, contribution_cycle_total,
       contribution_cycle_count, payout_recipient >>

vars ==
    << next_group_id, group_data, group_status, group_members, member_profile,
       member_payout_eligibility, contribution_individual, contribution_cycle_total,
       contribution_cycle_count, payout_recipient, now, group_value, status_value, last >>

(***************************************************************************)
(* Bounds of the model.                                                    *)
(***************************************************************************)
MaxMembersBound == 2    \* max_members arguments range over 1..MaxMembersBound
MaxCycle == 1           \* cycle numbers passed to record_contribution: 0..MaxCycle
MaxTime == 2            \* the ledger clock runs over 0..MaxTime
MaxRecords == 2         \* stored ContributionRecords per run
MaxGroups == 3          \* group ids issued per run of SpecIds
I128_MAX == 7           \* stands for i128::MAX: the largest representable amount
U64_MAX == 15           \* stands for u64::MAX: the largest timestamp, seed and product

Addresses == {"a1", "a2", "a3"}
GroupIds == {1}
Cycles == 0..MaxCycle
Times == 0..MaxTime

None == << >>
Some(x) == << x >>
IsSome(o) == o # << >>
Unwrap(o) == o[1]
UnwrapOr(o, d) == IF o = << >> THEN d ELSE o[1]

(***************************************************************************)
(* status.rs: the GroupStatus state machine with typed errors.             *)
(***************************************************************************)
Statuses == {"Pending", "Active", "Paused", "Completed", "Cancelled"}

\* Faulty variants of can_transition_to, used to test the transition claims:
\* one lets a Pending group be paused, one reopens a Completed group.
status_can_transition_to_PendingPaused(self, new_status) ==
    IF self = "Pending" /\ new_status \in {"Active", "Cancelled", "Paused"} THEN "Ok"
    ELSE IF self = "Active" /\ new_status \in {"Paused", "Completed", "Cancelled"} THEN "Ok"
    ELSE IF self = "Paused" /\ new_status \in {"Active", "Cancelled"} THEN "Ok"
    ELSE IF self = "Completed" THEN "AlreadyCompleted"
    ELSE IF self = "Cancelled" THEN "AlreadyCancelled"
    ELSE "InvalidTransition"

status_can_transition_to_Reopen(self, new_status) ==
    IF self = "Pending" /\ new_status \in {"Active", "Cancelled"} THEN "Ok"
    ELSE IF self = "Active" /\ new_status \in {"Paused", "Completed", "Cancelled"} THEN "Ok"
    ELSE IF self = "Paused" /\ new_status \in {"Active", "Cancelled"} THEN "Ok"
    ELSE IF self = "Completed" /\ new_status = "Active" THEN "Ok"
    ELSE IF self = "Completed" THEN "AlreadyCompleted"
    ELSE IF self = "Cancelled" THEN "AlreadyCancelled"
    ELSE "InvalidTransition"

status_can_transition_to(self, new_status) ==
    IF self = "Pending" /\ new_status = "Active" THEN "Ok"
    ELSE IF self = "Pending" /\ new_status = "Cancelled" THEN "Ok"
    ELSE IF self = "Active" /\ new_status = "Paused" THEN "Ok"
    ELSE IF self = "Active" /\ new_status = "Completed" THEN "Ok"
    ELSE IF self = "Active" /\ new_status = "Cancelled" THEN "Ok"
    ELSE IF self = "Paused" /\ new_status = "Active" THEN "Ok"
    ELSE IF self = "Paused" /\ new_status = "Cancelled" THEN "Ok"
    ELSE IF self = "Completed" THEN "AlreadyCompleted"
    ELSE IF self = "Cancelled" THEN "AlreadyCancelled"
    ELSE "InvalidTransition"

\* transition_to: Ok(new_status) or the error of can_transition_to.
status_transition_to(self, new_status) ==
    LET r == status_can_transition_to(self, new_status)
    IN  IF r = "Ok" THEN [res |-> "Ok", status |-> new_status]
        ELSE [res |-> r, status |-> self]

(***************************************************************************)
(* group.rs: the GroupStatus of the Group module (boolean transitions).    *)
(***************************************************************************)
group_can_transition_to(self, new_status) ==
    IF self = new_status THEN TRUE
    ELSE IF self = "Pending" /\ new_status = "Active" THEN TRUE
    ELSE IF self = "Pending" /\ new_status = "Cancelled" THEN TRUE
    ELSE IF self = "Active" /\ new_status = "Paused" THEN TRUE
    ELSE IF self = "Active" /\ new_status = "Completed" THEN TRUE
    ELSE IF self = "Active" /\ new_status = "Cancelled" THEN TRUE
    ELSE IF self = "Paused" /\ new_status = "Active" THEN TRUE
    ELSE IF self = "Paused" /\ new_status = "Cancelled" THEN TRUE
    ELSE FALSE

(***************************************************************************)
(* group.rs: the Group value and its cycle methods.                        *)
(***************************************************************************)
\* The minimum membership lib.rs gives every group it builds.
DEFAULT_MIN_MEMBERS == 2

\* The assertions of Group::new; a violated one panics.
Group_new_ok(contribution_amount, cycle_duration, max_members) ==
    /\ contribution_amount > 0
    /\ cycle_duration > 0
    /\ max_members >= 2

Group_new(id, creator, contribution_amount, cycle_duration, max_members, created_at) ==
    [ id |-> id,
      creator |-> creator,
      contribution_amount |-> contribution_amount,
      cycle_duration |-> cycle_duration,
      max_members |-> max_members,
      current_cycle |-> 0,
      is_active |-> TRUE,
      created_at |-> created_at ]

\* The fields lib.rs reads and writes on a Group (member_count, status, started,
\* started_at) that the Group of group.rs does not declare; their initial values
\* are those the specification gives a new group.
GroupLedgerFields ==
    [ member_count |-> 0, min_members |-> DEFAULT_MIN_MEMBERS, status |-> "Pending",
      started |-> FALSE, started_at |-> 0 ]

\* Group::add_member and Group::activate, which lib.rs calls on a Group: a member
\* is counted; activation requires a group not yet started that has reached its
\* minimum membership, and makes it Active and started at the given time.
Group_add_member(g) == [g EXCEPT !.member_count = @ + 1]

Group_activate(g, timestamp) ==
    IF g.started \/ g.member_count < g.min_members
    THEN [res |-> "Panic", group |-> g]
    ELSE [ res |-> "Ok",
           group |-> [g EXCEPT !.status = "Active", !.started = TRUE,
                               !.started_at = timestamp] ]

\* Faulty variant of is_complete (off by one), used to test the cycle bound.
Group_is_complete_OffByOne(g) == g.current_cycle > g.max_members

Group_is_complete(g) == g.current_cycle >= g.max_members

\* advance_cycle: panics on a complete group, else increments the cycle and
\* deactivates the group when the increment completes it.
Group_advance_cycle(g) ==
    IF Group_is_complete(g) THEN [res |-> "Panic", group |-> g]
    ELSE LET g1 == [g EXCEPT !.current_cycle = @ + 1]
         IN  [ res |-> "Ok",
               group |-> IF Group_is_complete(g1) THEN [g1 EXCEPT !.is_active = FALSE]
                         ELSE g1 ]

Group_deactivate(g) == [g EXCEPT !.is_active = FALSE]

\* Faulty variant of reactivate (no completeness assertion), used to test that a
\* complete group stays inactive.
Group_reactivate_Unchecked(g) == [res |-> "Ok", group |-> [g EXCEPT !.is_active = TRUE]]

Group_reactivate(g) ==
    IF Group_is_complete(g) THEN [res |-> "Panic", group |-> g]
    ELSE [res |-> "Ok", group |-> [g EXCEPT !.is_active = TRUE]]

Group_validate(g) ==
    /\ g.contribution_amount > 0
    /\ g.cycle_duration > 0
    /\ g.max_members >= 2
    /\ g.current_cycle <= g.max_members

(***************************************************************************)
(* cycle_advancement.rs                                                    *)
(***************************************************************************)
\* advance_group_cycle_logic: the transition alone, no storage, no event.
advance_group_cycle_logic(g) ==
    IF Group_is_complete(g) THEN [res |-> "InvalidState", group |-> g]
    ELSE Group_advance_cycle(g)

\* Faulty variant of advance_group_to_next_cycle (the group is written before the
\* completeness check), used to test the refusal claim.
advance_group_to_next_cycle_WriteFirst(g, group_id, caller) ==
    IF Group_is_complete(g)
    THEN [res |-> "InvalidState", group |-> g, persist |-> Some(g), event |-> None]
    ELSE LET g1 == Group_advance_cycle(g).group
         IN  [ res |-> "Ok",
               group |-> g1,
               persist |-> Some(g1),
               event |-> IF Group_is_complete(g1)
                         THEN Some([ name |-> "GroupStatusChanged",
                                     group_id |-> group_id,
                                     old_status |-> g1.current_cycle - 1,
                                     new_status |-> 3,
                                     caller |-> caller ])
                         ELSE None ]

\* advance_group_to_next_cycle: the transition, the write of the group under
\* group_data(group_id) and the GroupStatusChanged event on completion.
\* persist is the value written to storage (None: nothing is written).
advance_group_to_next_cycle(g, group_id, caller) ==
    IF Group_is_complete(g)
    THEN [res |-> "InvalidState", group |-> g, persist |-> None, event |-> None]
    ELSE LET g1 == Group_advance_cycle(g).group
         IN  [ res |-> "Ok",
               group |-> g1,
               persist |-> Some(g1),
               event |-> IF Group_is_complete(g1)
                         THEN Some([ name |-> "GroupStatusChanged",
                                     group_id |-> group_id,
                                     old_status |-> g1.current_cycle - 1,
                                     new_status |-> 3,
                                     caller |-> caller ])
                         ELSE None ]

(***************************************************************************)
(* pool.rs: PoolCalculator.                                                *)
(***************************************************************************)
\* Faulty variant of checked_mul (the product wraps around in two's complement
\* instead of being refused), used to test the pool arithmetic claim.
checked_mul_i128_Wrapping(a, b) ==
    Some(((a * b + I128_MAX + 1) % (2 * (I128_MAX + 1))) - (I128_MAX + 1))

\* i128::checked_mul: None when the product leaves the i128 range.
checked_mul_i128(a, b) ==
    IF a * b > I128_MAX \/ a * b < -I128_MAX - 1 THEN None ELSE Some(a * b)

\* PoolCalculator::calculate_total_pool: the two validations in the order of the
\* code, then the checked product.
calculate_total_pool(contribution_amount, member_count) ==
    IF contribution_amount <= 0 THEN [res |-> "InvalidAmount", value |-> 0]
    ELSE IF member_count = 0 THEN [res |-> "InvalidState", value |-> 0]
    ELSE LET pool_amount == checked_mul_i128(contribution_amount, member_count)
         IN  IF pool_amount = None THEN [res |-> "InternalError", value |-> 0]
             ELSE [res |-> "Ok", value |-> Unwrap(pool_amount)]

(***************************************************************************)
(* SpecValue: a caller holding a Group value and a status value.           *)
(***************************************************************************)
\* The storage before any call, over the group ids of ids.
EmptyStorageOf(ids) ==
    /\ next_group_id = 0
    /\ group_data = [g \in ids |-> None]
    /\ group_status = [g \in ids |-> None]
    /\ group_members = [g \in ids |-> None]
    /\ member_profile = [k \in ids \X Addresses |-> None]
    /\ member_payout_eligibility = [k \in ids \X Addresses |-> None]
    /\ contribution_individual = [k \in ids \X Cycles \X Addresses |-> None]
    /\ contribution_cycle_total = [k \in ids \X Cycles |-> None]
    /\ contribution_cycle_count = [k \in ids \X Cycles |-> None]
    /\ payout_recipient = [k \in ids \X (0..MaxMembersBound) |-> None]

EmptyStorage == EmptyStorageOf(GroupIds)

InitValue ==
    /\ EmptyStorage
    /\ now = 0
    /\ \E mm \in 2..MaxMembersBound :
          group_value = Group_new(1, "a1", 1, 1, mm, 0) @@ GroupLedgerFields
    /\ status_value = "Pending"
    /\ last = [op |-> "init"]

\* status.transition_to(new_status), the caller keeping the returned status.
TransitionTo(new_status) ==
    LET r == status_transition_to(status_value, new_status)
    IN  /\ status_value' = r.status
        /\ last' = [ op |-> "transition_to", from |-> status_value,
                     to |-> new_status, res |-> r.res ]
        /\ UNCHANGED << storage, now, group_value >>

\* can_transition_to of both GroupStatus types on the same pair.
CanTransitionTo(new_status) ==
    /\ last' = [ op |-> "can_transition_to", from |-> status_value, to |-> new_status,
                 status_res |-> status_can_transition_to(status_value, new_status),
                 group_res |-> group_can_transition_to(status_value, new_status) ]
    /\ UNCHANGED << storage, now, group_value, status_value >>

AdvanceCycle ==
    LET r == Group_advance_cycle(group_value)
    IN  /\ group_value' = r.group
        /\ last' = [op |-> "advance_cycle", res |-> r.res]
        /\ UNCHANGED << storage, now, status_value >>

AdvanceGroupCycleLogic ==
    LET r == advance_group_cycle_logic(group_value)
    IN  /\ group_value' = r.group
        /\ last' = [op |-> "advance_group_cycle_logic", res |-> r.res]
        /\ UNCHANGED << storage, now, status_value >>

AdvanceGroupToNextCycleValue ==
    LET r == advance_group_to_next_cycle(group_value, group_value.id, "a1")
    IN  /\ group_value' = r.group
        /\ group_data' = IF IsSome(r.persist)
                         THEN [group_data EXCEPT ![group_value.id] = r.persist]
                         ELSE group_data
        /\ last' = [op |-> "advance_group_to_next_cycle", res |-> r.res, event |-> r.event]
        /\ UNCHANGED << next_group_id, group_status, group_members, member_profile,
                        member_payout_eligibility, contribution_individual,
                        contribution_cycle_total, contribution_cycle_count,
                        payout_recipient, now, status_value >>

Deactivate ==
    /\ group_value' = Group_deactivate(group_value)
    /\ last' = [op |-> "deactivate", res |-> "Ok"]
    /\ UNCHANGED << storage, now, status_value >>

Reactivate ==
    LET r == Group_reactivate(group_value)
    IN  /\ group_value' = r.group
        /\ last' = [op |-> "reactivate", res |-> r.res]
        /\ UNCHANGED << storage, now, status_value >>

\* The arguments of calculate_total_pool: amounts on both sides of 0 and up to
\* the largest i128, member counts from 0.
PoolAmountInputs == (-1..3) \cup {I128_MAX - 1, I128_MAX}
PoolMemberInputs == 0..(MaxMembersBound + 1)

CalculateTotalPool(contribution_amount, member_count) ==
    LET r == calculate_total_pool(contribution_amount, member_count)
    IN  /\ last' = [ op |-> "calculate_total_pool",
                     contribution_amount |-> contribution_amount,
                     member_count |-> member_count, res |-> r.res, value |-> r.value ]
        /\ UNCHANGED << storage, now, group_value, status_value >>

NextValue ==
    \/ \E c \in PoolAmountInputs, n \in PoolMemberInputs : CalculateTotalPool(c, n)
    \/ \E t \in Statuses : TransitionTo(t)
    \/ \E t \in Statuses : CanTransitionTo(t)
    \/ AdvanceCycle
    \/ AdvanceGroupCycleLogic
    \/ AdvanceGroupToNextCycleValue
    \/ Deactivate
    \/ Reactivate

SpecValue == InitValue /\ [][NextValue]_vars

(***************************************************************************)
(* lib.rs: the contribution ledger.                                        *)
(***************************************************************************)
\* Amounts passed to record_contribution: a rejected one, the smallest one
\* and the largest representable one.
AmountInputs == {0, 1, I128_MAX}

\* Times that pass between two calls: twice the shortest cycle duration, the
\* inactivity that emergency_withdraw requires.
ElapsedInputs == {2}

\* i128::checked_add: None on overflow.
checked_add_i128(a, b) ==
    IF a + b > I128_MAX \/ a + b < -I128_MAX - 1 THEN None ELSE Some(a + b)

\* contribution.rs ContributionRecord::new; it asserts amount > 0.
ContributionRecord_new(member_address, group_id, cycle_number, amount, timestamp) ==
    [ member_address |-> member_address, group_id |-> group_id,
      cycle_number |-> cycle_number, amount |-> amount, timestamp |-> timestamp ]

\* Faulty variant of record_contribution (no duplicate check: the record is
\* overwritten and counted again), used to test the no-double-contribution claim.
record_contribution_NoDupCheck(ind, tot, cnt, group_id, cycle_number, member_address, amount, timestamp) ==
    LET ck == <<group_id, cycle_number, member_address>>
        ak == <<group_id, cycle_number>>
    IN  IF amount <= 0 THEN [res |-> "Panic", ind |-> ind, tot |-> tot, cnt |-> cnt]
        ELSE [ res |-> "Ok",
               ind |-> [ind EXCEPT ![ck] = Some(ContributionRecord_new(
                            member_address, group_id, cycle_number, amount, timestamp))],
               tot |-> [tot EXCEPT ![ak] = Some(UnwrapOr(tot[ak], 0) + amount)],
               cnt |-> [cnt EXCEPT ![ak] = Some(UnwrapOr(cnt[ak], 0) + 1)] ]

\* record_contribution on the three ledger maps (individual records, cycle totals,
\* cycle counts), in the order of the code: the duplicate check, the record
\* (ContributionRecord::new panics on amount <= 0), its write, then the checked
\* addition to the cycle total, which returns Overflow AFTER the record is written,
\* then the count.  The count's own checked_add(1) overflows only at u32::MAX
\* contributors, which no run of the model reaches.
record_contribution(ind, tot, cnt, group_id, cycle_number, member_address, amount, timestamp) ==
    LET ck == <<group_id, cycle_number, member_address>>
        ak == <<group_id, cycle_number>>
        ind1 == [ind EXCEPT ![ck] = Some(ContributionRecord_new(
                    member_address, group_id, cycle_number, amount, timestamp))]
        new_total == checked_add_i128(UnwrapOr(tot[ak], 0), amount)
    IN  IF IsSome(ind[ck])
        THEN [res |-> "AlreadyContributed", ind |-> ind, tot |-> tot, cnt |-> cnt]
        ELSE IF amount <= 0
        THEN [res |-> "Panic", ind |-> ind, tot |-> tot, cnt |-> cnt]
        ELSE IF new_total = None
        THEN [res |-> "Overflow", ind |-> ind1, tot |-> tot, cnt |-> cnt]
        ELSE [ res |-> "Ok", ind |-> ind1,
               tot |-> [tot EXCEPT ![ak] = new_total],
               cnt |-> [cnt EXCEPT ![ak] = Some(UnwrapOr(cnt[ak], 0) + 1)] ]

\* The stored ContributionRecords of a cycle, and their number over all cycles.
CycleRecords(group_id, cycle) ==
    { a \in Addresses : IsSome(contribution_individual[<<group_id, cycle, a>>]) }

StoredRecords ==
    { k \in DOMAIN contribution_individual : IsSome(contribution_individual[k]) }

\* A call of record_contribution with the ledger clock as its timestamp.
RecordContribution(g, c, m, a) ==
    LET r == record_contribution(contribution_individual, contribution_cycle_total,
                                 contribution_cycle_count, g, c, m, a, now)
    IN  /\ (Cardinality(StoredRecords) < MaxRecords
              \/ IsSome(contribution_individual[<<g, c, m>>]))
        /\ contribution_individual' = r.ind
        /\ contribution_cycle_total' = r.tot
        /\ contribution_cycle_count' = r.cnt
        /\ last' = [ op |-> "record_contribution", group_id |-> g, cycle |-> c,
                     member |-> m, amount |-> a, res |-> r.res,
                     had |-> contribution_individual[<<g, c, m>>] ]
        /\ UNCHANGED << next_group_id, group_data, group_status, group_members,
                        member_profile, member_payout_eligibility, payout_recipient,
                        now, group_value, status_value >>

\* The ledger clock advances by d.
Tick(d) ==
    /\ now + d <= MaxTime
    /\ now' = now + d
    /\ last' = [op |-> "tick"]
    /\ UNCHANGED << storage, group_value, status_value >>

InitLedger ==
    /\ EmptyStorage
    /\ now = 0
    /\ group_value = None
    /\ status_value = "Pending"
    /\ last = [op |-> "init"]

NextLedger ==
    \/ \E g \in GroupIds, c \in Cycles, m \in Addresses, a \in AmountInputs :
          RecordContribution(g, c, m, a)
    \/ \E d \in ElapsedInputs : Tick(d)

SpecLedger == InitLedger /\ [][NextLedger]_vars

(***************************************************************************)
(* lib.rs: the group lifecycle entry points on the contract storage.       *)
(* An entry point that returns Err or panics leaves the storage as it was. *)
(***************************************************************************)
\* storage().persistent().get(key): None for a key that was never written.
Get(map, k) == IF k \in DOMAIN map THEN map[k] ELSE None

\* The elements of a stored Vec.
Range(seq) == { seq[i] : i \in DOMAIN seq }

\* Arguments of create_group: rejected and accepted ones.
CreatorInputs == {"a1"}
ContributionAmountInputs == {0, 1}
CycleDurationInputs == {1}
MaxMembersInputs == 1..MaxMembersBound

\* Amounts contributed to the groups of the contract: their contribution_amount.
ContributedInputs == {1}

\* The values of the temporary Group that activate_group builds.
MOCK_MAX_MEMBERS == 5

\* Faulty variant of generate_next_group_id (the id is the number of stored groups
\* plus one, so a deleted group's id is issued again), used to test the id claim.
generate_next_group_id_Reuse(current_id) ==
    Cardinality({ g \in DOMAIN group_data : IsSome(group_data[g]) }) + 1

\* generate_next_group_id: the stored counter plus one (its checked_add overflows
\* only at u64::MAX, which no run of the model reaches).
generate_next_group_id(current_id) == current_id + 1

\* create_group with no ContractConfig stored: the id, Group::new (which panics
\* on an amount or duration of 0 or on fewer than 2 members), the group and its
\* Pending status.
CreateGroup(creator, contribution_amount, cycle_duration, max_members) ==
    LET group_id == generate_next_group_id(next_group_id)
        ok == Group_new_ok(contribution_amount, cycle_duration, max_members)
        new_group == Group_new(group_id, creator, contribution_amount,
                               cycle_duration, max_members, now) @@ GroupLedgerFields
    IN  /\ group_id \in DOMAIN group_data
        /\ IF ok
           THEN /\ next_group_id' = group_id
                /\ group_data' = [group_data EXCEPT ![group_id] = Some(new_group)]
                /\ group_status' = [group_status EXCEPT ![group_id] = Some("Pending")]
           ELSE UNCHANGED << next_group_id, group_data, group_status >>
        /\ last' = [ op |-> "create_group", group_id |-> group_id,
                     res |-> IF ok THEN "Ok" ELSE "Panic" ]
        /\ UNCHANGED << group_members, member_profile, member_payout_eligibility,
                        contribution_individual, contribution_cycle_total,
                        contribution_cycle_count, payout_recipient, now,
                        group_value, status_value >>

\* Faulty variant of join_group's checks (only the terminal statuses are closed
\* to new members), used to test the claim on joining a group that left Pending.
join_group_res_OpenUntilTerminal(group_id, member) ==
    IF group_data[group_id] = None THEN "GroupNotFound"
    ELSE IF UnwrapOr(group_status[group_id], "Pending") \in {"Completed", "Cancelled"}
    THEN "InvalidState"
    ELSE IF IsSome(member_profile[<<group_id, member>>]) THEN "AlreadyMember"
    ELSE IF Unwrap(group_data[group_id]).member_count
               >= Unwrap(group_data[group_id]).max_members THEN "GroupFull"
    ELSE "Ok"

\* The result of join_group's checks, in the order of the code.
join_group_res(group_id, member) ==
    IF group_data[group_id] = None THEN "GroupNotFound"
    ELSE IF UnwrapOr(group_status[group_id], "Pending") # "Pending" THEN "InvalidState"
    ELSE IF IsSome(member_profile[<<group_id, member>>]) THEN "AlreadyMember"
    ELSE IF Unwrap(group_data[group_id]).member_count
               >= Unwrap(group_data[group_id]).max_members THEN "GroupFull"
    ELSE "Ok"

\* Faulty variant of the profile join_group builds (positions counted from 1),
\* used to test the claim on join_group's effects.
join_group_profile_OneBased(group, group_id, member, timestamp) ==
    [ address |-> member, group_id |-> group_id,
      payout_position |-> group.member_count + 1, joined_at |-> timestamp ]

\* The MemberProfile join_group builds: payout_position is the member_count.
join_group_profile(group, group_id, member, timestamp) ==
    [ address |-> member, group_id |-> group_id,
      payout_position |-> group.member_count, joined_at |-> timestamp ]

\* join_group: the profile with payout_position = member_count, the member list,
\* the payout eligibility entry and the incremented member_count.
JoinGroup(group_id, member) ==
    LET res == join_group_res(group_id, member)
        group == Unwrap(group_data[group_id])
        payout_position == group.member_count
        profile == join_group_profile(group, group_id, member, now)
        members == UnwrapOr(group_members[group_id], << >>)
    IN  /\ IF res = "Ok"
           THEN /\ member_profile' =
                      [member_profile EXCEPT ![<<group_id, member>>] = Some(profile)]
                /\ group_members' =
                      [group_members EXCEPT ![group_id] = Some(Append(members, member))]
                /\ member_payout_eligibility' =
                      [member_payout_eligibility EXCEPT ![<<group_id, member>>] =
                          Some(payout_position)]
                /\ group_data' =
                      [group_data EXCEPT ![group_id] = Some(Group_add_member(group))]
           ELSE UNCHANGED << member_profile, group_members,
                             member_payout_eligibility, group_data >>
        /\ last' = [ op |-> "join_group", group_id |-> group_id,
                     member |-> member, res |-> res ]
        /\ UNCHANGED << next_group_id, group_status, contribution_individual,
                        contribution_cycle_total, contribution_cycle_count,
                        payout_recipient, now, group_value, status_value >>

\* is_cycle_complete: GroupNotFound without a member list, else whether the
\* cycle's count has reached the length of the list.
is_cycle_complete(group_id, cycle_number) ==
    IF group_members[group_id] = None THEN [res |-> "GroupNotFound", value |-> FALSE]
    ELSE [ res |-> "Ok",
           value |-> UnwrapOr(Get(contribution_cycle_count, <<group_id, cycle_number>>), 0)
                        >= Len(Unwrap(group_members[group_id])) ]

\* has_received_payout: the member is the stored recipient of a cycle in
\* 0..=current_cycle.
has_received_payout(group_id, member_address) ==
    IF group_data[group_id] = None THEN [res |-> "GroupNotFound", value |-> FALSE]
    ELSE [ res |-> "Ok",
           value |-> \E cycle \in 0..Unwrap(group_data[group_id]).current_cycle :
                        Get(payout_recipient, <<group_id, cycle>>) = Some(member_address) ]

RECURSIVE MemberTotalFrom(_, _, _, _, _)
\* The loop of get_member_total_contributions from cycle to last_cycle with the
\* running total: None when a checked addition overflows.
MemberTotalFrom(group_id, member, cycle, last_cycle, total) ==
    IF cycle > last_cycle THEN Some(total)
    ELSE LET rec == Get(contribution_individual, <<group_id, cycle, member>>)
             sum == IF rec = None THEN Some(total)
                    ELSE checked_add_i128(total, Unwrap(rec).amount)
         IN  IF sum = None THEN None
             ELSE MemberTotalFrom(group_id, member, cycle + 1, last_cycle, Unwrap(sum))

get_member_total_contributions(group_id, member) ==
    IF group_data[group_id] = None THEN [res |-> "GroupNotFound", value |-> 0]
    ELSE LET t == MemberTotalFrom(group_id, member, 0,
                                  Unwrap(group_data[group_id]).current_cycle, 0)
         IN  IF t = None THEN [res |-> "Overflow", value |-> 0]
             ELSE [res |-> "Ok", value |-> Unwrap(t)]

\* Faulty variant of emergency_withdraw (the amount is the member's total also
\* after the member received a payout), used to test the withdrawal claim.
emergency_withdraw_IgnorePayout(group_id, member) ==
    LET group == Unwrap(group_data[group_id])
        total == get_member_total_contributions(group_id, member)
        amount == total.value
    IN  IF group_data[group_id] = None
        THEN [res |-> "GroupNotFound", amount |-> 0, event |-> None]
        ELSE IF member_profile[<<group_id, member>>] = None
        THEN [res |-> "NotMember", amount |-> 0, event |-> None]
        ELSE IF Group_is_complete(group)
        THEN [res |-> "InvalidState", amount |-> 0, event |-> None]
        ELSE IF IsSome(Get(contribution_cycle_total, <<group_id, group.current_cycle>>))
        THEN [res |-> "Panic", amount |-> 0, event |-> None]
        ELSE IF (IF now >= group.started_at THEN now - group.started_at ELSE 0)
                   < 2 * group.cycle_duration
        THEN [res |-> "InvalidState", amount |-> 0, event |-> None]
        ELSE IF total.res # "Ok" THEN [res |-> total.res, amount |-> 0, event |-> None]
        ELSE [ res |-> "Ok", amount |-> amount,
               event |-> IF amount > 0
                         THEN Some([ name |-> "emergency_withdrawal",
                                     group_id |-> group_id, member |-> member,
                                     amount |-> amount ])
                         ELSE None ]

\* emergency_withdraw: its checks in the order of the code, the withdrawal amount,
\* the event and the removal of the member's profile.  The last activity time is
\* read as a u64 from the contribution_cycle_total key of the current cycle, which
\* holds an i128 when it exists: that read panics; without the key it is started_at.
emergency_withdraw(group_id, member) ==
    LET group == Unwrap(group_data[group_id])
        total == get_member_total_contributions(group_id, member)
        received == has_received_payout(group_id, member)
        amount == IF received.value THEN 0 ELSE total.value
    IN  IF group_data[group_id] = None
        THEN [res |-> "GroupNotFound", amount |-> 0, event |-> None]
        ELSE IF member_profile[<<group_id, member>>] = None
        THEN [res |-> "NotMember", amount |-> 0, event |-> None]
        ELSE IF Group_is_complete(group)
        THEN [res |-> "InvalidState", amount |-> 0, event |-> None]
        ELSE IF IsSome(Get(contribution_cycle_total, <<group_id, group.current_cycle>>))
        THEN [res |-> "Panic", amount |-> 0, event |-> None]
        ELSE IF (IF now >= group.started_at THEN now - group.started_at ELSE 0)
                   < 2 * group.cycle_duration
        THEN [res |-> "InvalidState", amount |-> 0, event |-> None]
        ELSE IF total.res # "Ok" THEN [res |-> total.res, amount |-> 0, event |-> None]
        ELSE [ res |-> "Ok", amount |-> amount,
               event |-> IF amount > 0
                         THEN Some([ name |-> "emergency_withdrawal",
                                     group_id |-> group_id, member |-> member,
                                     amount |-> amount ])
                         ELSE None ]

EmergencyWithdraw(group_id, member) ==
    LET r == emergency_withdraw(group_id, member)
    IN  /\ member_profile' = IF r.res = "Ok"
                             THEN [member_profile EXCEPT ![<<group_id, member>>] = None]
                             ELSE member_profile
        /\ last' = [ op |-> "emergency_withdraw", group_id |-> group_id,
                     member |-> member, res |-> r.res, amount |-> r.amount,
                     event |-> r.event ]
        /\ UNCHANGED << next_group_id, group_data, group_status, group_members,
                        member_payout_eligibility, contribution_individual,
                        contribution_cycle_total, contribution_cycle_count,
                        payout_recipient, now, group_value, status_value >>

\* activate_group: a temporary Group built from the arguments (amounts in units
\* of the model), member_count calls of add_member, activate, the event.
\* Neither the stored group nor its status is read or written.
activate_group(group_id, creator, member_count, timestamp) ==
    LET mock == Group_new(group_id, creator, 1, 1, MOCK_MAX_MEMBERS, timestamp)
                   @@ GroupLedgerFields
        counted == [mock EXCEPT !.member_count = member_count]
        r == Group_activate(counted, timestamp)
    IN  [ res |-> r.res,
          event |-> IF r.res = "Ok"
                    THEN Some([ name |-> "group_activated", group_id |-> group_id,
                                member_count |-> member_count ])
                    ELSE None ]

ActivateGroup(group_id, creator, member_count) ==
    LET r == activate_group(group_id, creator, member_count, now)
    IN  /\ last' = [ op |-> "activate_group", group_id |-> group_id,
                     member_count |-> member_count, res |-> r.res, event |-> r.event ]
        /\ UNCHANGED << storage, now, group_value, status_value >>

\* advance_group_to_next_cycle called on the stored group of group_id, as its
\* callers do: the group is loaded from group_data and passed in.
AdvanceStoredGroup(group_id) ==
    LET r == advance_group_to_next_cycle(Unwrap(group_data[group_id]), group_id, "a1")
    IN  /\ IsSome(group_data[group_id])
        /\ group_data' = IF IsSome(r.persist)
                         THEN [group_data EXCEPT ![group_id] = r.persist]
                         ELSE group_data
        /\ last' = [ op |-> "advance_group_to_next_cycle", group_id |-> group_id,
                     res |-> r.res, event |-> r.event ]
        /\ UNCHANGED << next_group_id, group_status, group_members, member_profile,
                        member_payout_eligibility, contribution_individual,
                        contribution_cycle_total, contribution_cycle_count,
                        payout_recipient, now, group_value, status_value >>

Init ==
    /\ EmptyStorage
    /\ now = 0
    /\ group_value = None
    /\ status_value = "Pending"
    /\ last = [op |-> "init"]

Next ==
    \/ \E creator \in CreatorInputs, a \in ContributionAmountInputs,
          d \in CycleDurationInputs, mm \in MaxMembersInputs :
          CreateGroup(creator, a, d, mm)
    \/ \E g \in GroupIds, m \in Addresses : JoinGroup(g, m)
    \/ \E g \in GroupIds, c \in Cycles, m \in Addresses, a \in ContributedInputs :
          RecordContribution(g, c, m, a)
    \/ \E g \in GroupIds : AdvanceStoredGroup(g)
    \/ \E g \in GroupIds, creator \in CreatorInputs, n \in 0..MaxMembersBound :
          ActivateGroup(g, creator, n)
    \/ \E g \in GroupIds, m \in Addresses : EmergencyWithdraw(g, m)
    \/ \E d \in ElapsedInputs : Tick(d)

Spec == Init /\ [][Next]_vars

(***************************************************************************)
(* lib.rs: group administration (update_group, assign_payout_positions,    *)
(* delete_group) and the queries get_group and get_total_groups.           *)
(***************************************************************************)
\* The account that signed the call: require_auth() of another address traps.
SignerInputs == {"a1", "a2"}

\* Arguments of update_group, different from those of create_group.
NewContributionInputs == {2}
NewDurationInputs == {2}

\* Faulty variant of update_group's checks (an Active or Paused group can still
\* be updated), used to test the claim on updates after Pending.
update_group_res_OpenWhileActive(group_id, signer) ==
    IF group_data[group_id] = None THEN "GroupNotFound"
    ELSE IF Unwrap(group_data[group_id]).creator # signer THEN "AuthError"
    ELSE IF UnwrapOr(group_status[group_id], "Pending") \in {"Completed", "Cancelled"}
    THEN "InvalidState"
    ELSE "Ok"

\* update_group with no ContractConfig stored: the group, the signature of its
\* creator, the Pending status, then the three fields are overwritten.
update_group_res(group_id, signer) ==
    IF group_data[group_id] = None THEN "GroupNotFound"
    ELSE IF Unwrap(group_data[group_id]).creator # signer THEN "AuthError"
    ELSE IF UnwrapOr(group_status[group_id], "Pending") # "Pending" THEN "InvalidState"
    ELSE "Ok"

UpdateGroup(group_id, signer, new_contribution, new_duration, new_max_members) ==
    LET res == update_group_res(group_id, signer)
        group == Unwrap(group_data[group_id])
    IN  /\ group_data' =
              IF res = "Ok"
              THEN [group_data EXCEPT ![group_id] =
                      Some([group EXCEPT !.contribution_amount = new_contribution,
                                         !.cycle_duration = new_duration,
                                         !.max_members = new_max_members])]
              ELSE group_data
        /\ last' = [ op |-> "update_group", group_id |-> group_id, signer |-> signer,
                     res |-> res ]
        /\ UNCHANGED << next_group_id, group_status, group_members, member_profile,
                        member_payout_eligibility, contribution_individual,
                        contribution_cycle_total, contribution_cycle_count,
                        payout_recipient, now, group_value, status_value >>

\* Vec positions are 0-indexed: element i of a Vec is element i + 1 of a sequence.
VecGet(vec, i) == vec[i + 1]

\* Faulty variant of the swap of shuffle (element j is not written back), used
\* to test the claim on distinct payout positions.
VecSwap_Overwrite(vec, i, j) ==
    [vec EXCEPT ![i + 1] = vec[j + 1]]

\* The swap of shuffle: elements i and j change places.
VecSwap(vec, i, j) ==
    [vec EXCEPT ![i + 1] = vec[j + 1], ![j + 1] = vec[i + 1]]

\* u64 wrapping_mul: the product modulo 2^64.
wrapping_mul_u64(a, b) == (a * b) % (U64_MAX + 1)

RECURSIVE shuffle_from_SeedIndex(_, _, _)
\* Faulty variant of the loop of shuffle (the swap index is seed mod (i + 1), as
\* in a seeded Fisher-Yates shuffle), used to test the claim that the output does
\* not depend on the seed.
shuffle_from_SeedIndex(vec, seed, i) ==
    IF i < 1 THEN vec
    ELSE shuffle_from_SeedIndex(VecSwap(vec, i, seed % (i + 1)), seed, i - 1)

RECURSIVE shuffle_from(_, _, _)
\* The loop of shuffle from index i down to 1:
\* j = seed.wrapping_mul(i + 1) mod (i + 1).
shuffle_from(vec, seed, i) ==
    IF i < 1 THEN vec
    ELSE shuffle_from(VecSwap(vec, i, wrapping_mul_u64(seed, i + 1) % (i + 1)),
                      seed, i - 1)

shuffle(vec, seed) == shuffle_from(vec, seed, Len(vec) - 1)

\* The assignment modes: Sequential, Random and Manual(positions).
Sequential == [kind |-> "Sequential", positions |-> << >>]
Random == [kind |-> "Random", positions |-> << >>]
Manual(positions) == [kind |-> "Manual", positions |-> positions]

\* The position lists passed in Manual mode: of every length up to the largest
\* group, the permutations of 0..n-1, the list that repeats position 0 and the
\* list 1..n of distinct positions that is no permutation of 0..n-1.
ManualInputs ==
    UNION { { p \in [1..n -> 0..n] :
                \/ /\ \A i \in 1..n : p[i] < n
                   /\ \A i, j \in 1..n : p[i] = p[j] => i = j
                \/ \A i \in 1..n : p[i] = 0
                \/ \A i \in 1..n : p[i] = i } : n \in 0..MaxMembersBound }

ModeInputs == {Sequential, Random} \cup { Manual(p) : p \in ManualInputs }

\* The positions of a mode for n members.
mode_positions(mode, n, seed) ==
    IF mode.kind = "Sequential" THEN [i \in 1..n |-> i - 1]
    ELSE IF mode.kind = "Random" THEN shuffle([i \in 1..n |-> i - 1], seed)
    ELSE mode.positions

\* Faulty variant of assign_payout_positions' checks (positions may also be
\* assigned while the group is Active), used to test the claim on positions
\* frozen after Pending.
assign_payout_positions_res_OpenWhileActive(group_id, caller, mode) ==
    IF group_data[group_id] = None THEN "GroupNotFound"
    ELSE IF Unwrap(group_data[group_id]).creator # caller THEN "Unauthorized"
    ELSE IF UnwrapOr(group_status[group_id], "Pending") \notin {"Pending", "Active"}
    THEN "InvalidState"
    ELSE IF group_members[group_id] = None THEN "GroupNotFound"
    ELSE IF mode.kind = "Manual"
            /\ Len(mode.positions) # Len(Unwrap(group_members[group_id]))
    THEN "InvalidState"
    ELSE IF \E m \in Range(Unwrap(group_members[group_id])) :
               member_profile[<<group_id, m>>] = None
    THEN "NotMember"
    ELSE "Ok"

\* Faulty variant of assign_payout_positions' checks (the caller is not compared
\* with the creator), used to test the claim on unauthorized callers.
assign_payout_positions_res_AnyCaller(group_id, caller, mode) ==
    IF group_data[group_id] = None THEN "GroupNotFound"
    ELSE IF UnwrapOr(group_status[group_id], "Pending") # "Pending" THEN "InvalidState"
    ELSE IF group_members[group_id] = None THEN "GroupNotFound"
    ELSE IF mode.kind = "Manual"
            /\ Len(mode.positions) # Len(Unwrap(group_members[group_id]))
    THEN "InvalidState"
    ELSE IF \E m \in Range(Unwrap(group_members[group_id])) :
               member_profile[<<group_id, m>>] = None
    THEN "NotMember"
    ELSE "Ok"

\* The result of assign_payout_positions' checks, in the order of the code; the
\* last one is the profile lookup of the writing loop, which fails on a listed
\* member without a profile.
assign_payout_positions_res(group_id, caller, mode) ==
    IF group_data[group_id] = None THEN "GroupNotFound"
    ELSE IF Unwrap(group_data[group_id]).creator # caller THEN "Unauthorized"
    ELSE IF UnwrapOr(group_status[group_id], "Pending") # "Pending" THEN "InvalidState"
    ELSE IF group_members[group_id] = None THEN "GroupNotFound"
    ELSE IF mode.kind = "Manual"
            /\ Len(mode.positions) # Len(Unwrap(group_members[group_id]))
    THEN "InvalidState"
    ELSE IF \E m \in Range(Unwrap(group_members[group_id])) :
               member_profile[<<group_id, m>>] = None
    THEN "NotMember"
    ELSE "Ok"

RECURSIVE assign_profiles(_, _, _, _, _)
\* The writing loop on the profiles from index idx: payout_position of
\* members[idx] becomes positions[idx].
assign_profiles(mp, group_id, members, positions, idx) ==
    IF idx >= Len(members) THEN mp
    ELSE LET k == <<group_id, VecGet(members, idx)>>
         IN  assign_profiles(
                 [mp EXCEPT ![k] = Some([Unwrap(mp[k]) EXCEPT
                                            !.payout_position = VecGet(positions, idx)])],
                 group_id, members, positions, idx + 1)

RECURSIVE assign_eligibility_ByIndex(_, _, _, _, _)
\* Faulty variant of the eligibility loop (the record gets the index of the member
\* in the list, not its assigned position), used to test the claim that the lookup
\* record agrees with the profile.
assign_eligibility_ByIndex(me, group_id, members, positions, idx) ==
    IF idx >= Len(members) THEN me
    ELSE assign_eligibility_ByIndex(
             [me EXCEPT ![<<group_id, VecGet(members, idx)>>] = Some(idx)],
             group_id, members, positions, idx + 1)

RECURSIVE assign_eligibility(_, _, _, _, _)
\* The writing loop on the member_payout_eligibility records.
assign_eligibility(me, group_id, members, positions, idx) ==
    IF idx >= Len(members) THEN me
    ELSE assign_eligibility(
             [me EXCEPT ![<<group_id, VecGet(members, idx)>>] =
                            Some(VecGet(positions, idx))],
             group_id, members, positions, idx + 1)

AssignPayoutPositions(group_id, caller, mode) ==
    LET res == assign_payout_positions_res(group_id, caller, mode)
        members == Unwrap(group_members[group_id])
        positions == mode_positions(mode, Len(members), now)
    IN  /\ IF res = "Ok"
           THEN /\ member_profile' =
                      assign_profiles(member_profile, group_id, members, positions, 0)
                /\ member_payout_eligibility' =
                      assign_eligibility(member_payout_eligibility, group_id,
                                         members, positions, 0)
           ELSE UNCHANGED << member_profile, member_payout_eligibility >>
        /\ last' = [ op |-> "assign_payout_positions", group_id |-> group_id,
                     caller |-> caller, mode |-> mode, res |-> res ]
        /\ UNCHANGED << next_group_id, group_data, group_status, group_members,
                        contribution_individual, contribution_cycle_total,
                        contribution_cycle_count, payout_recipient, now,
                        group_value, status_value >>

\* Faulty variant of delete_group's checks (a group with one member can be
\* deleted), used to test the deletion claim.
delete_group_res_OneMember(group_id, signer) ==
    IF group_data[group_id] = None THEN "GroupNotFound"
    ELSE IF Unwrap(group_data[group_id]).creator # signer THEN "AuthError"
    ELSE IF Unwrap(group_data[group_id]).member_count > 1 THEN "InvalidState"
    ELSE "Ok"

\* delete_group: the group, the signature of its creator, no member counted; the
\* group record and its status record are removed.
delete_group_res(group_id, signer) ==
    IF group_data[group_id] = None THEN "GroupNotFound"
    ELSE IF Unwrap(group_data[group_id]).creator # signer THEN "AuthError"
    ELSE IF Unwrap(group_data[group_id]).member_count > 0 THEN "InvalidState"
    ELSE "Ok"

DeleteGroup(group_id, signer) ==
    LET res == delete_group_res(group_id, signer)
    IN  /\ IF res = "Ok"
           THEN /\ group_data' = [group_data EXCEPT ![group_id] = None]
                /\ group_status' = [group_status EXCEPT ![group_id] = None]
           ELSE UNCHANGED << group_data, group_status >>
        /\ last' = [ op |-> "delete_group", group_id |-> group_id, signer |-> signer,
                     res |-> res ]
        /\ UNCHANGED << next_group_id, group_members, member_profile,
                        member_payout_eligibility, contribution_individual,
                        contribution_cycle_total, contribution_cycle_count,
                        payout_recipient, now, group_value, status_value >>

\* get_group: the stored group or GroupNotFound.
get_group(group_id) ==
    IF Get(group_data, group_id) = None THEN [res |-> "GroupNotFound", value |-> None]
    ELSE [res |-> "Ok", value |-> group_data[group_id]]

\* get_total_groups: the stored id counter, 0 when it was never written.
get_total_groups == next_group_id

\* The member list of a group, empty when none is stored.
MemberList(g) == UnwrapOr(group_members[g], << >>)

\* The status record of a group as the entry points read it.
StatusOf(g) == UnwrapOr(group_status[g], "Pending")

\* The status record of a group moves along the GroupStatus state machine: the
\* stored status is replaced by transition_to's result when it is Ok.
StoreStatus(group_id, new_status) ==
    LET r == status_transition_to(UnwrapOr(group_status[group_id], "Pending"), new_status)
    IN  /\ IsSome(group_data[group_id])
        /\ group_status' = IF r.res = "Ok"
                           THEN [group_status EXCEPT ![group_id] = Some(r.status)]
                           ELSE group_status
        /\ last' = [ op |-> "transition_status", group_id |-> group_id,
                     to |-> new_status, res |-> r.res ]
        /\ UNCHANGED << next_group_id, group_data, group_members, member_profile,
                        member_payout_eligibility, contribution_individual,
                        contribution_cycle_total, contribution_cycle_count,
                        payout_recipient, now, group_value, status_value >>

(***************************************************************************)
(* SpecMembers: one group, its administration and its membership.          *)
(***************************************************************************)
InitMembers ==
    /\ EmptyStorage
    /\ now = MaxTime
    /\ group_value = None
    /\ status_value = "Pending"
    /\ last = [op |-> "init"]

NextMembers ==
    \/ \E creator \in CreatorInputs, a \in ContributionAmountInputs,
          d \in CycleDurationInputs, mm \in MaxMembersInputs :
          CreateGroup(creator, a, d, mm)
    \/ \E g \in GroupIds, m \in Addresses : JoinGroup(g, m)
    \/ \E g \in GroupIds, s \in SignerInputs, a \in NewContributionInputs,
          d \in NewDurationInputs, mm \in MaxMembersInputs :
          UpdateGroup(g, s, a, d, mm)
    \/ \E g \in GroupIds, c \in SignerInputs, mode \in ModeInputs :
          AssignPayoutPositions(g, c, mode)
    \/ \E g \in GroupIds, s \in SignerInputs : DeleteGroup(g, s)
    \/ \E g \in GroupIds, t \in Statuses : StoreStatus(g, t)

SpecMembers == InitMembers /\ [][NextMembers]_vars

(***************************************************************************)
(* SpecAssign: one group whose members join, leave through                 *)
(* emergency_withdraw and join again, and whose payout positions are       *)
(* assigned while its status record moves.  The clock is drawn at the      *)
(* start: it is the seed of the Random mode.                               *)
(***************************************************************************)
\* The ledger times at which the group of SpecAssign lives.
SeedInputs == {0, MaxTime}

InitAssign ==
    /\ EmptyStorage
    /\ now \in SeedInputs
    /\ group_value = None
    /\ status_value = "Pending"
    /\ last = [op |-> "init"]

NextAssign ==
    \/ \E creator \in CreatorInputs, a \in ContributedInputs,
          d \in CycleDurationInputs, mm \in MaxMembersInputs :
          CreateGroup(creator, a, d, mm)
    \/ \E g \in GroupIds, m \in SignerInputs : JoinGroup(g, m)
    \/ \E g \in GroupIds, m \in SignerInputs : EmergencyWithdraw(g, m)
    \/ \E g \in GroupIds, c \in SignerInputs, mode \in ModeInputs :
          AssignPayoutPositions(g, c, mode)
    \/ \E g \in GroupIds, t \in Statuses : StoreStatus(g, t)

SpecAssign == InitAssign /\ [][NextAssign]_vars

(***************************************************************************)
(* SpecShuffle: shuffle applied to a list of positions drawn at the start, *)
(* under every u64 seed.                                                   *)
(***************************************************************************)
\* The lists shuffle is applied to: the orders of the positions 0..n-1 of groups
\* of up to MaxMembersBound + 1 members.
ShuffleVecInputs ==
    UNION { { p \in [1..n -> 0..(n - 1)] : \A i, j \in 1..n : p[i] = p[j] => i = j }
            : n \in 0..(MaxMembersBound + 1) }

ShuffleSeedInputs == 0..U64_MAX

InitShuffle ==
    /\ EmptyStorage
    /\ now = 0
    /\ group_value = None
    /\ status_value = "Pending"
    /\ \E vec \in ShuffleVecInputs : last = [op |-> "vec", vec |-> vec]

\* shuffle(vec, seed) on the list drawn at the start; the list and the result are
\* recorded.
Shuffle(seed) ==
    /\ last' = [ op |-> "shuffle", vec |-> last.vec, seed |-> seed,
                 out |-> shuffle(last.vec, seed) ]
    /\ UNCHANGED << storage, now, group_value, status_value >>

NextShuffle == \E seed \in ShuffleSeedInputs : Shuffle(seed)

SpecShuffle == InitShuffle /\ [][NextShuffle]_vars

(***************************************************************************)
(* SpecIds: several groups created, joined and deleted.                    *)
(***************************************************************************)
AllGroupIds == 1..MaxGroups

InitIds ==
    /\ EmptyStorageOf(AllGroupIds)
    /\ now = 0
    /\ group_value = None
    /\ status_value = "Pending"
    /\ last = [op |-> "init"]

NextIds ==
    \/ \E creator \in CreatorInputs, a \in ContributionAmountInputs,
          d \in CycleDurationInputs, mm \in MaxMembersInputs :
          CreateGroup(creator, a, d, mm)
    \/ \E g \in AllGroupIds, m \in CreatorInputs : JoinGroup(g, m)
    \/ \E g \in AllGroupIds, s \in SignerInputs : DeleteGroup(g, s)

SpecIds == InitIds /\ [][NextIds]_vars

(***************************************************************************)
(* SpecWithdraw: contributions, payouts, cycle advancement, the clock and  *)
(* emergency withdrawals of one group.                                     *)
(***************************************************************************)
\* The execution of a payout as far as the contract reads it: the recipient of
\* the group's current cycle is stored under the payout_recipient key, once per
\* cycle, and is a member of the group.
StorePayoutRecipient(group_id, recipient) ==
    LET cycle == Unwrap(group_data[group_id]).current_cycle
    IN  /\ IsSome(group_data[group_id])
        /\ <<group_id, cycle>> \in DOMAIN payout_recipient
        /\ payout_recipient[<<group_id, cycle>>] = None
        /\ IsSome(member_profile[<<group_id, recipient>>])
        /\ payout_recipient' = [payout_recipient EXCEPT ![<<group_id, cycle>>] =
                                    Some(recipient)]
        /\ last' = [ op |-> "payout", group_id |-> group_id, cycle |-> cycle,
                     recipient |-> recipient ]
        /\ UNCHANGED << next_group_id, group_data, group_status, group_members,
                        member_profile, member_payout_eligibility,
                        contribution_individual, contribution_cycle_total,
                        contribution_cycle_count, now, group_value, status_value >>

InitWithdraw ==
    /\ EmptyStorage
    /\ now = 0
    /\ group_value = None
    /\ status_value = "Pending"
    /\ last = [op |-> "init"]

\* The group of SpecWithdraw has room for one cycle more than MaxMembersBound, so
\* that a member's contributions of several earlier cycles are summed.
WithdrawMaxMembersInputs == {MaxMembersBound + 1}

NextWithdraw ==
    \/ \E creator \in CreatorInputs, a \in ContributedInputs,
          d \in CycleDurationInputs, mm \in WithdrawMaxMembersInputs :
          CreateGroup(creator, a, d, mm)
    \/ \E g \in GroupIds, m \in CreatorInputs : JoinGroup(g, m)
    \/ \E g \in GroupIds, c \in Cycles, m \in CreatorInputs, a \in ContributedInputs :
          RecordContribution(g, c, m, a)
    \/ \E g \in GroupIds : AdvanceStoredGroup(g)
    \/ \E g \in GroupIds, m \in CreatorInputs : StorePayoutRecipient(g, m)
    \/ \E g \in GroupIds, m \in SignerInputs : EmergencyWithdraw(g, m)
    \/ \E d \in ElapsedInputs : Tick(d)

SpecWithdraw == InitWithdraw /\ [][NextWithdraw]_vars

(***************************************************************************)
(* SpecQueries: one group that is joined, activated, contributed to, paid  *)
(* and advanced, and the read-only entry point is_payout_due.              *)
(***************************************************************************)
\* PoolCalculator::get_pool_info as far as is_payout_due reads it: the member
\* count is the length of the stored member list, the total pool is computed
\* (and its failure returned) before the contributor count is compared.
get_pool_info(group_id, cycle) ==
    IF group_members[group_id] = None
    THEN [res |-> "GroupNotFound", is_cycle_complete |-> FALSE]
    ELSE IF group_data[group_id] = None
    THEN [res |-> "GroupNotFound", is_cycle_complete |-> FALSE]
    ELSE LET member_count == Len(Unwrap(group_members[group_id]))
             total == calculate_total_pool(
                          Unwrap(group_data[group_id]).contribution_amount, member_count)
             contributors_count ==
                 UnwrapOr(Get(contribution_cycle_count, <<group_id, cycle>>), 0)
         IN  IF total.res # "Ok" THEN [res |-> total.res, is_cycle_complete |-> FALSE]
             ELSE [res |-> "Ok", is_cycle_complete |-> contributors_count >= member_count]

\* Faulty variant of is_payout_due (the recorded payout of the current cycle is
\* not looked up), used to test the claim on due payouts.
is_payout_due_IgnorePaid(group_id) ==
    IF group_data[group_id] = None THEN [res |-> "GroupNotFound", value |-> FALSE]
    ELSE LET group == Unwrap(group_data[group_id])
             pool_info == get_pool_info(group_id, group.current_cycle)
         IN  IF group.status # "Active" THEN [res |-> "Ok", value |-> FALSE]
             ELSE IF pool_info.res # "Ok" THEN [res |-> pool_info.res, value |-> FALSE]
             ELSE [res |-> "Ok", value |-> pool_info.is_cycle_complete]

\* is_payout_due: false unless the stored group's status is Active; then the pool
\* information of the current cycle (whose error is returned), false on an
\* incomplete cycle, and otherwise whether no recipient is stored for the cycle.
is_payout_due(group_id) ==
    IF group_data[group_id] = None THEN [res |-> "GroupNotFound", value |-> FALSE]
    ELSE LET group == Unwrap(group_data[group_id])
             pool_info == get_pool_info(group_id, group.current_cycle)
             already_executed ==
                 IsSome(Get(payout_recipient, <<group_id, group.current_cycle>>))
         IN  IF group.status # "Active" THEN [res |-> "Ok", value |-> FALSE]
             ELSE IF pool_info.res # "Ok" THEN [res |-> pool_info.res, value |-> FALSE]
             ELSE IF ~pool_info.is_cycle_complete THEN [res |-> "Ok", value |-> FALSE]
             ELSE [res |-> "Ok", value |-> ~already_executed]

IsPayoutDue(group_id) ==
    LET r == is_payout_due(group_id)
    IN  /\ last' = [ op |-> "is_payout_due", group_id |-> group_id,
                     res |-> r.res, value |-> r.value ]
        /\ UNCHANGED << storage, now, group_value, status_value >>

\* The activation of the stored group: Group::activate on the group record, and
\* the status record moved to Active.
ActivateStoredGroup(group_id) ==
    LET r == Group_activate(Unwrap(group_data[group_id]), now)
    IN  /\ IsSome(group_data[group_id])
        /\ StatusOf(group_id) = "Pending"
        /\ IF r.res = "Ok"
           THEN /\ group_data' = [group_data EXCEPT ![group_id] = Some(r.group)]
                /\ group_status' = [group_status EXCEPT ![group_id] = Some("Active")]
           ELSE UNCHANGED << group_data, group_status >>
        /\ last' = [op |-> "activate_stored_group", group_id |-> group_id, res |-> r.res]
        /\ UNCHANGED << next_group_id, group_members, member_profile,
                        member_payout_eligibility, contribution_individual,
                        contribution_cycle_total, contribution_cycle_count,
                        payout_recipient, now, group_value, status_value >>

\* The page size get_member_contribution_history allows at most.
HISTORY_PAGE_CAP == 50

RECURSIVE history_from(_, _, _, _, _, _)
\* The loop of get_member_contribution_history over cycle..=end_cycle: it stops
\* once page_limit records are collected.
history_from(group_id, member, cycle, end_cycle, page_limit, contributions) ==
    IF cycle > end_cycle \/ Len(contributions) >= page_limit THEN contributions
    ELSE LET rec == Get(contribution_individual, <<group_id, cycle, member>>)
         IN  history_from(group_id, member, cycle + 1, end_cycle, page_limit,
                          IF rec = None THEN contributions
                          ELSE Append(contributions, Unwrap(rec)))

\* get_member_contribution_history: the limit capped, the end cycle (start plus
\* the page limit, clipped to current_cycle; the saturation of the u32 sum is
\* beyond the cycles of the model), the inclusive loop.
get_member_contribution_history(group_id, member, start_cycle, limit) ==
    IF group_data[group_id] = None THEN [res |-> "GroupNotFound", value |-> << >>]
    ELSE LET group == Unwrap(group_data[group_id])
             page_limit == IF limit > HISTORY_PAGE_CAP THEN HISTORY_PAGE_CAP ELSE limit
             calculated_end == start_cycle + page_limit
             end_cycle == IF calculated_end > group.current_cycle
                          THEN group.current_cycle ELSE calculated_end
         IN  [ res |-> "Ok",
               value |-> history_from(group_id, member, start_cycle, end_cycle,
                                      page_limit, << >>) ]

\* The limits passed to get_member_contribution_history: none, one, two and one
\* above the cap.
LimitInputs == {0, 1, 2, HISTORY_PAGE_CAP + 1}

GetMemberContributionHistory(group_id, member, start_cycle, limit) ==
    LET r == get_member_contribution_history(group_id, member, start_cycle, limit)
    IN  /\ last' = [ op |-> "get_member_contribution_history", group_id |-> group_id,
                     member |-> member, start_cycle |-> start_cycle, limit |-> limit,
                     res |-> r.res, value |-> r.value ]
        /\ UNCHANGED << storage, now, group_value, status_value >>

\* The contribution amounts of the groups of SpecQueries: the smallest and the
\* largest i128.
QueryAmountInputs == {1, I128_MAX}

InitQueries ==
    /\ EmptyStorage
    /\ now = 0
    /\ group_value = None
    /\ status_value = "Pending"
    /\ last = [op |-> "init"]

NextQueries ==
    \/ \E creator \in CreatorInputs, a \in QueryAmountInputs,
          d \in CycleDurationInputs, mm \in MaxMembersInputs :
          CreateGroup(creator, a, d, mm)
    \/ \E g \in GroupIds, m \in SignerInputs : JoinGroup(g, m)
    \/ \E g \in GroupIds : ActivateStoredGroup(g)
    \/ \E g \in GroupIds, c \in Cycles, m \in SignerInputs, a \in ContributedInputs :
          RecordContribution(g, c, m, a)
    \/ \E g \in GroupIds : AdvanceStoredGroup(g)
    \/ \E g \in GroupIds, m \in CreatorInputs : StorePayoutRecipient(g, m)
    \/ \E g \in GroupIds : IsPayoutDue(g)

SpecQueries == InitQueries /\ [][NextQueries]_vars

(***************************************************************************)
(* SpecHistory: one group whose creator contributes to its cycles while    *)
(* the cycle advances, and get_member_contribution_history.                *)
(***************************************************************************)
NextHistory ==
    \/ \E creator \in CreatorInputs, a \in ContributedInputs,
          d \in CycleDurationInputs, mm \in WithdrawMaxMembersInputs :
          CreateGroup(creator, a, d, mm)
    \/ \E g \in GroupIds, m \in CreatorInputs : JoinGroup(g, m)
    \/ \E g \in GroupIds, c \in Cycles, m \in CreatorInputs, a \in ContributedInputs :
          RecordContribution(g, c, m, a)
    \/ \E g \in GroupIds : AdvanceStoredGroup(g)
    \/ \E g \in GroupIds, m \in SignerInputs, c \in Cycles, l \in LimitInputs :
          GetMemberContributionHistory(g, m, c, l)

SpecHistory == InitQueries /\ [][NextHistory]_vars

(***************************************************************************)
(* SpecDeadline: one group created with a short or a very long cycle,      *)
(* joined and activated while the clock runs, and                          *)
(* get_contribution_deadline.                                              *)
(***************************************************************************)
\* Faulty variant of checked_add (the sum wraps modulo 2^64 instead of being
\* refused), used to test the deadline arithmetic claim.
checked_add_u64_Wrapping(a, b) == Some((a + b) % (U64_MAX + 1))

\* u64::checked_add and u64::checked_mul: None when the result exceeds u64::MAX.
checked_add_u64(a, b) == IF a + b > U64_MAX THEN None ELSE Some(a + b)

checked_mul_u64(a, b) == IF a * b > U64_MAX THEN None ELSE Some(a * b)

\* get_contribution_deadline: GroupNotFound, InvalidState for a group not started,
\* then started_at + cycle_number * cycle_duration + cycle_duration in three
\* checked steps, each returning Overflow when it fails.
get_contribution_deadline(group_id, cycle_number) ==
    LET group == Unwrap(group_data[group_id])
        cycle_offset == checked_mul_u64(cycle_number, group.cycle_duration)
        cycle_start_time == checked_add_u64(group.started_at, Unwrap(cycle_offset))
        deadline == checked_add_u64(Unwrap(cycle_start_time), group.cycle_duration)
    IN  IF group_data[group_id] = None THEN [res |-> "GroupNotFound", value |-> 0]
        ELSE IF ~group.started THEN [res |-> "InvalidState", value |-> 0]
        ELSE IF cycle_offset = None THEN [res |-> "Overflow", value |-> 0]
        ELSE IF cycle_start_time = None THEN [res |-> "Overflow", value |-> 0]
        ELSE IF deadline = None THEN [res |-> "Overflow", value |-> 0]
        ELSE [res |-> "Ok", value |-> Unwrap(deadline)]

GetContributionDeadline(group_id, cycle_number) ==
    LET r == get_contribution_deadline(group_id, cycle_number)
    IN  /\ last' = [ op |-> "get_contribution_deadline", group_id |-> group_id,
                     cycle_number |-> cycle_number, res |-> r.res, value |-> r.value ]
        /\ UNCHANGED << storage, now, group_value, status_value >>

\* The cycle durations of the groups of SpecDeadline, up to the largest u64, and
\* the cycle numbers asked for.
DeadlineDurationInputs == {1, 2, U64_MAX}
DeadlineCycleInputs == 0..U64_MAX

NextDeadline ==
    \/ \E creator \in CreatorInputs, a \in ContributedInputs,
          d \in DeadlineDurationInputs, mm \in MaxMembersInputs :
          CreateGroup(creator, a, d, mm)
    \/ \E g \in GroupIds, m \in SignerInputs : JoinGroup(g, m)
    \/ \E g \in GroupIds : ActivateStoredGroup(g)
    \/ \E g \in GroupIds, c \in DeadlineCycleInputs : GetContributionDeadline(g, c)
    \/ Tick(1)

SpecDeadline == InitQueries /\ [][NextDeadline]_vars

(***************************************************************************)
(* SpecPayoutOrder: one group whose members join and get positions, whose  *)
(* cycles advance with payouts recorded and whose status record moves,     *)
(* and the queries get_payout_queue, validate_payout_recipient and         *)
(* is_complete.                                                            *)
(***************************************************************************)
\* get_payout_position: NotMember without a member_payout_eligibility record.  The
\* record is read as a MemberProfile, and join_group and assign_payout_positions
\* store a u32 position under that key: the typed read of a stored record fails
\* and the call panics.
get_payout_position(group_id, member_address) ==
    IF member_payout_eligibility[<<group_id, member_address>>] = None
    THEN [res |-> "NotMember", value |-> 0]
    ELSE [res |-> "Panic", value |-> 0]

\* validate_payout_recipient: its checks in the order of the code; an error or a
\* panic of get_payout_position ends the call.
validate_payout_recipient(group_id, recipient) ==
    LET group == Unwrap(group_data[group_id])
        has_received == has_received_payout(group_id, recipient)
        payout_position == get_payout_position(group_id, recipient)
    IN  IF group_data[group_id] = None THEN [res |-> "GroupNotFound", value |-> FALSE]
        ELSE IF member_profile[<<group_id, recipient>>] = None
        THEN [res |-> "Ok", value |-> FALSE]
        ELSE IF has_received.value THEN [res |-> "Ok", value |-> FALSE]
        ELSE IF payout_position.res # "Ok"
        THEN [res |-> payout_position.res, value |-> FALSE]
        ELSE [res |-> "Ok", value |-> payout_position.value = group.current_cycle]

ValidatePayoutRecipient(group_id, recipient) ==
    LET r == validate_payout_recipient(group_id, recipient)
    IN  /\ last' = [ op |-> "validate_payout_recipient", group_id |-> group_id,
                     recipient |-> recipient, res |-> r.res, value |-> r.value ]
        /\ UNCHANGED << storage, now, group_value, status_value >>

RECURSIVE queue_entries_from(_, _, _, _)
\* The collecting loop of get_payout_queue from index idx: a member who has not
\* received a payout is pushed with its position; an error or a panic of
\* get_payout_position ends the call.
queue_entries_from(group_id, members, idx, queue_entries) ==
    IF idx >= Len(members) THEN [res |-> "Ok", entries |-> queue_entries]
    ELSE LET member == VecGet(members, idx)
             position == get_payout_position(group_id, member)
         IN  IF has_received_payout(group_id, member).value
             THEN queue_entries_from(group_id, members, idx + 1, queue_entries)
             ELSE IF position.res # "Ok" THEN [res |-> position.res, entries |-> << >>]
             ELSE queue_entries_from(group_id, members, idx + 1,
                      Append(queue_entries,
                             [member |-> member, position |-> position.value]))

RECURSIVE queue_min_idx(_, _, _)
\* The inner loop of the selection sort from index j: the index of the first
\* entry with the least position.
queue_min_idx(queue_entries, min_idx, j) ==
    IF j >= Len(queue_entries) THEN min_idx
    ELSE queue_min_idx(queue_entries,
                       IF VecGet(queue_entries, j).position
                             < VecGet(queue_entries, min_idx).position
                       THEN j ELSE min_idx,
                       j + 1)

RECURSIVE queue_sort_from(_, _)
\* The outer loop of the selection sort from index i.
queue_sort_from(queue_entries, i) ==
    IF i >= Len(queue_entries) THEN queue_entries
    ELSE LET min_idx == queue_min_idx(queue_entries, i, i + 1)
         IN  queue_sort_from(IF min_idx # i THEN VecSwap(queue_entries, i, min_idx)
                             ELSE queue_entries,
                             i + 1)

\* get_payout_queue: GroupNotFound without the group or its member list, then the
\* collected entries sorted by position and reduced to their addresses.
get_payout_queue(group_id) ==
    LET collected == queue_entries_from(group_id, Unwrap(group_members[group_id]),
                                        0, << >>)
        sorted == queue_sort_from(collected.entries, 0)
    IN  IF group_data[group_id] = None \/ group_members[group_id] = None
        THEN [res |-> "GroupNotFound", value |-> << >>]
        ELSE IF collected.res # "Ok" THEN [res |-> collected.res, value |-> << >>]
        ELSE [res |-> "Ok", value |-> [i \in 1..Len(sorted) |-> sorted[i].member]]

GetPayoutQueue(group_id) ==
    LET r == get_payout_queue(group_id)
    IN  /\ last' = [ op |-> "get_payout_queue", group_id |-> group_id,
                     res |-> r.res, value |-> r.value ]
        /\ UNCHANGED << storage, now, group_value, status_value >>

\* is_complete of the contract: Group::is_complete of the stored group.
is_complete(group_id) ==
    IF group_data[group_id] = None THEN [res |-> "GroupNotFound", value |-> FALSE]
    ELSE [res |-> "Ok", value |-> Group_is_complete(Unwrap(group_data[group_id]))]

IsComplete(group_id) ==
    LET r == is_complete(group_id)
    IN  /\ last' = [ op |-> "is_complete", group_id |-> group_id,
                     res |-> r.res, value |-> r.value ]
        /\ UNCHANGED << storage, now, group_value, status_value >>

NextPayoutOrder ==
    \/ \E creator \in CreatorInputs, a \in ContributedInputs,
          d \in CycleDurationInputs, mm \in MaxMembersInputs :
          CreateGroup(creator, a, d, mm)
    \/ \E g \in GroupIds, m \in SignerInputs : JoinGroup(g, m)
    \/ \E g \in GroupIds, c \in CreatorInputs, mode \in ModeInputs :
          AssignPayoutPositions(g, c, mode)
    \/ \E g \in GroupIds : AdvanceStoredGroup(g)
    \/ \E g \in GroupIds, m \in SignerInputs : StorePayoutRecipient(g, m)
    \/ \E g \in GroupIds, t \in Statuses : StoreStatus(g, t)
    \/ \E g \in GroupIds : GetPayoutQueue(g)
    \/ \E g \in GroupIds, m \in Addresses : ValidatePayoutRecipient(g, m)
    \/ \E g \in GroupIds : IsComplete(g)

SpecPayoutOrder == InitQueries /\ [][NextPayoutOrder]_vars

(***************************************************************************)
(* Claims checked under SpecValue.                                         *)
(***************************************************************************)
\* The legal transitions between distinct statuses, as the specification lists them.
LegalTransitions ==
    { <<"Pending", "Active">>, <<"Pending", "Cancelled">>,
      <<"Active", "Paused">>, <<"Active", "Completed">>, <<"Active", "Cancelled">>,
      <<"Paused", "Active">>, <<"Paused", "Cancelled">> }

StatusErrors == {"InvalidTransition", "AlreadyCompleted", "AlreadyCancelled"}

\* C7: for distinct statuses s, t, can_transition_to(s, t) is legal exactly for the
\* seven listed pairs (in status.rs and in group.rs), and transition_to returns t
\* in exactly those cases and an error, leaving the status as it was, otherwise.
C7_TransitionTable ==
    /\ \A s \in Statuses : \A t \in Statuses \ {s} :
          /\ (status_can_transition_to(s, t) = "Ok") <=> (<<s, t>> \in LegalTransitions)
          /\ group_can_transition_to(s, t) <=> (<<s, t>> \in LegalTransitions)
    /\ (last.op = "transition_to" /\ last.from # last.to) =>
          /\ (last.res = "Ok") <=> (<<last.from, last.to>> \in LegalTransitions)
          /\ last.res = "Ok" => status_value = last.to
          /\ last.res # "Ok" => (status_value = last.from /\ last.res \in StatusErrors)

\* C7 witness: a legal transition between distinct statuses was performed.
C7_Witness ==
    /\ last.op = "transition_to"
    /\ last.from = "Paused" /\ last.to = "Active"
    /\ last.res = "Ok" /\ status_value = "Active"

\* C8: once the status value is Completed or Cancelled no transition_to changes it,
\* and every transition_to to a different status returns an error.
C8_TerminalForever ==
    /\ [](  (last.op = "transition_to" /\ last.from \in {"Completed", "Cancelled"}
              /\ last.to # last.from)
            => (last.res \in StatusErrors /\ status_value = last.from) )
    /\ [][ (status_value \in {"Completed", "Cancelled"}) => (status_value' = status_value) ]_vars

\* C8 witness: a transition out of Completed was attempted and refused.
C8_Witness ==
    /\ last.op = "transition_to"
    /\ last.from = "Completed" /\ last.to = "Active"
    /\ last.res = "AlreadyCompleted" /\ status_value = "Completed"

\* C9: the transition from a status to itself is legal in both GroupStatus
\* implementations: group.rs answers true and status.rs answers Ok.
C9_SelfTransitionLegal ==
    (last.op = "can_transition_to" /\ last.from = last.to) =>
        (last.group_res = TRUE /\ last.status_res = "Ok")

AdvanceOps == {"advance_cycle", "advance_group_cycle_logic", "advance_group_to_next_cycle"}

\* C10: under cycle advancements, deactivate and reactivate, current_cycle never
\* exceeds max_members (in the value and in its persisted copy), a successful
\* advancement raises current_cycle by exactly 1, a refused one leaves it, and
\* current_cycle never decreases.
C10_CycleBounded ==
    /\ [](  /\ group_value.current_cycle <= group_value.max_members
            /\ \A g \in GroupIds : IsSome(group_data[g]) =>
                  Unwrap(group_data[g]).current_cycle <= Unwrap(group_data[g]).max_members )
    /\ [][ /\ group_value'.current_cycle >= group_value.current_cycle
           /\ (last'.op \in AdvanceOps /\ last'.res = "Ok")
                 => group_value'.current_cycle = group_value.current_cycle + 1
           /\ (last'.op \in AdvanceOps /\ last'.res # "Ok")
                 => group_value'.current_cycle = group_value.current_cycle
           /\ last'.op \notin AdvanceOps
                 => group_value'.current_cycle = group_value.current_cycle ]_vars

\* C10 witness: an advancement was attempted at current_cycle = max_members and refused.
C10_Witness ==
    /\ last.op = "advance_group_cycle_logic"
    /\ last.res = "InvalidState"
    /\ group_value.current_cycle = group_value.max_members

\* C11: advance_group_to_next_cycle and advance_group_cycle_logic called on a
\* complete group return InvalidState, leave the group value and the persisted
\* group record as they were, and emit no event.
C11_CompleteAdvanceRefused ==
    [][ ( /\ last'.op \in {"advance_group_cycle_logic", "advance_group_to_next_cycle"}
          /\ Group_is_complete(group_value) )
        => ( /\ last'.res = "InvalidState"
             /\ group_value' = group_value
             /\ group_data' = group_data
             /\ (last'.op = "advance_group_to_next_cycle" => last'.event = None) ) ]_vars

\* C11 witness: advance_group_to_next_cycle was refused on a complete group whose
\* record is stored.
C11_Witness ==
    /\ last.op = "advance_group_to_next_cycle"
    /\ last.res = "InvalidState"
    /\ last.event = None
    /\ Group_is_complete(group_value)
    /\ group_data[group_value.id] = Some(group_value)

\* C39: in every state reached from Group::new by advance_cycle, deactivate and
\* reactivate (a call whose assertion fails panics and changes nothing), a
\* complete group is not active: current_cycle >= max_members implies
\* is_active = FALSE.
C39_CompleteNeverActive ==
    Group_is_complete(group_value) => ~group_value.is_active

\* C39 witness: reactivate was called on a group that advance_cycle completed and
\* deactivated; it panicked and the group is still inactive.
C39_Witness ==
    /\ last.op = "reactivate"
    /\ last.res = "Panic"
    /\ group_value.current_cycle = group_value.max_members
    /\ ~group_value.is_active

\* C23: calculate_total_pool(c, n) returns InvalidAmount if c <= 0, otherwise
\* InvalidState if n = 0, otherwise InternalError if c * n exceeds the i128 range,
\* and otherwise exactly c * n: never a wrapped product.
C23_TotalPool ==
    last.op = "calculate_total_pool"
    => LET c == last.contribution_amount
           n == last.member_count
       IN  /\ last.res = ( IF c <= 0 THEN "InvalidAmount"
                           ELSE IF n = 0 THEN "InvalidState"
                           ELSE IF c * n > I128_MAX THEN "InternalError"
                           ELSE "Ok" )
           /\ (last.res = "Ok" => last.value = c * n)

\* C23 case: a product of valid arguments beyond the i128 range is refused.
C23_Witness ==
    /\ last.op = "calculate_total_pool"
    /\ last.contribution_amount > 0
    /\ last.member_count > 1
    /\ last.contribution_amount < I128_MAX
    /\ last.contribution_amount * last.member_count > I128_MAX
    /\ last.res = "InternalError"

\* C23 case: the largest product that fits is returned exactly.
C23_Exact ==
    /\ last.op = "calculate_total_pool"
    /\ last.res = "Ok"
    /\ last.member_count > 1
    /\ last.value = last.contribution_amount * last.member_count
    /\ last.value + last.contribution_amount > I128_MAX

(***************************************************************************)
(* Claims checked under SpecLedger.                                        *)
(***************************************************************************)
RECURSIVE SumAmounts(_, _, _)
\* The sum of the amounts of the stored records of members S in cycle c of group g.
SumAmounts(g, c, S) ==
    IF S = {} THEN 0
    ELSE LET a == CHOOSE x \in S : TRUE
         IN  Unwrap(contribution_individual[<<g, c, a>>]).amount
                + SumAmounts(g, c, S \ {a})

\* C2: a record_contribution call whose (group, cycle, member) key already holds a
\* record returns AlreadyContributed and leaves the stored records, the cycle
\* totals and the cycle counts as the first call left them.
C2_NoDoubleContribution ==
    [][ LET k == <<last'.group_id, last'.cycle, last'.member>>
        IN  (last'.op = "record_contribution" /\ IsSome(contribution_individual[k]))
            => /\ last'.res = "AlreadyContributed"
               /\ contribution_individual' = contribution_individual
               /\ contribution_cycle_total' = contribution_cycle_total
               /\ contribution_cycle_count' = contribution_cycle_count ]_vars

\* C2 witness: a second call on a stored key, with another amount, was refused
\* and the stored record still carries the first amount.
C2_Witness ==
    /\ last.op = "record_contribution"
    /\ last.res = "AlreadyContributed"
    /\ last.amount > 0
    /\ last.amount # Unwrap(last.had).amount
    /\ contribution_individual[<<last.group_id, last.cycle, last.member>>] = last.had

\* C3: for every (group, cycle) the stored cycle total is the sum of the amounts of
\* the stored records of the cycle and the stored cycle count is their number.
C3_AggregatesMatchRecords ==
    \A g \in GroupIds : \A c \in Cycles :
        /\ UnwrapOr(contribution_cycle_total[<<g, c>>], 0)
              = SumAmounts(g, c, CycleRecords(g, c))
        /\ UnwrapOr(contribution_cycle_count[<<g, c>>], 0)
              = Cardinality(CycleRecords(g, c))

\* The operations that write persisted records.
MutatingOps ==
    { "create_group", "update_group", "join_group", "record_contribution",
      "assign_payout_positions", "delete_group", "emergency_withdraw",
      "advance_group_to_next_cycle" }

\* C25: every mutating operation that returns an error leaves every persisted
\* record unchanged; in particular record_contribution failing with Overflow
\* leaves no ContributionRecord written and assign_payout_positions failing with
\* NotMember leaves no member's position rewritten.
C25_FailureWritesNothing ==
    [][ (last'.op \in MutatingOps /\ last'.res # "Ok") => storage' = storage ]_vars

(***************************************************************************)
(* Claims checked under Spec.                                              *)
(***************************************************************************)
\* The members of a group: the addresses of its member list that hold a profile.
MembersOf(g) ==
    { m \in Range(UnwrapOr(group_members[g], << >>)) : IsSome(member_profile[<<g, m>>]) }

\* The cycles of which m is the recorded payout recipient.
PayoutCycles(g, m) ==
    { c \in 0..MaxMembersBound : Get(payout_recipient, <<g, c>>) = Some(m) }

\* C1: in every state in which a stored group is complete (current_cycle >=
\* max_members), each of its members is the recorded payout recipient of exactly
\* one cycle, and that cycle is the member's payout_position.
C1_ExactlyOnePayout ==
    \A g \in GroupIds :
        (IsSome(group_data[g]) /\ Group_is_complete(Unwrap(group_data[g]))) =>
            \A m \in MembersOf(g) :
                PayoutCycles(g, m) = { Unwrap(member_profile[<<g, m>>]).payout_position }

\* The answer of is_cycle_complete, false where it returns an error.
CycleComplete(g, c) ==
    is_cycle_complete(g, c).res = "Ok" /\ is_cycle_complete(g, c).value

\* C4: is_cycle_complete(g, c) turns true only by a record_contribution on cycle c
\* of group g that succeeds, and once true it stays true in every later state.
C4_CycleCompleteMonotone ==
    [][ \A g \in GroupIds : \A c \in Cycles :
          /\ (~CycleComplete(g, c) /\ CycleComplete(g, c)')
                => ( /\ last'.op = "record_contribution" /\ last'.res = "Ok"
                     /\ last'.group_id = g /\ last'.cycle = c )
          /\ CycleComplete(g, c) => CycleComplete(g, c)' ]_vars

\* C5: after a successful advance_group_to_next_cycle the stored group is complete
\* exactly when its persisted status is Completed; until then it is active.
C5_CompletedStatusPersisted ==
    \A g \in GroupIds :
        ( /\ last.op = "advance_group_to_next_cycle"
          /\ last.group_id = g
          /\ last.res = "Ok" ) =>
            IF Group_is_complete(Unwrap(group_data[g]))
            THEN /\ group_status[g] = Some("Completed")
                 /\ Unwrap(group_data[g]).status = "Completed"
            ELSE /\ Unwrap(group_data[g]).is_active
                 /\ group_status[g] # Some("Completed")

\* C6: after activate_group succeeds for a stored Pending group, called with the
\* group's member count and that count at least the minimum, the persisted status
\* is Active, started is true and started_at is the current time; and no stored
\* group below its minimum membership is Active.
C6_ActivatePersists ==
    \A g \in GroupIds :
        /\ ( /\ last.op = "activate_group"
             /\ last.group_id = g
             /\ last.res = "Ok"
             /\ IsSome(group_data[g])
             /\ last.member_count = Unwrap(group_data[g]).member_count
             /\ last.member_count >= Unwrap(group_data[g]).min_members ) =>
                /\ group_status[g] = Some("Active")
                /\ Unwrap(group_data[g]).started
                /\ Unwrap(group_data[g]).started_at = now
        /\ ( /\ IsSome(group_data[g])
             /\ Unwrap(group_data[g]).member_count < Unwrap(group_data[g]).min_members ) =>
                group_status[g] # Some("Active")

(***************************************************************************)
(* Claims checked under SpecMembers.                                       *)
(***************************************************************************)
\* C12: a successful join_group(g, m) on a group with member_count = k stores the
\* profile of m with payout_position = k, stores k as m's payout eligibility,
\* appends m to the member list, sets member_count to k + 1 and changes nothing
\* else.
C12_JoinEffects ==
    [][ (last'.op = "join_group" /\ last'.res = "Ok") =>
          LET g == last'.group_id
              m == last'.member
              k == Unwrap(group_data[g]).member_count
          IN  /\ member_profile' =
                    [member_profile EXCEPT ![<<g, m>>] =
                        Some([ address |-> m, group_id |-> g,
                               payout_position |-> k, joined_at |-> now ])]
              /\ member_payout_eligibility' =
                    [member_payout_eligibility EXCEPT ![<<g, m>>] = Some(k)]
              /\ group_members' =
                    [group_members EXCEPT ![g] =
                        Some(Append(UnwrapOr(group_members[g], << >>), m))]
              /\ group_data' =
                    [group_data EXCEPT ![g] =
                        Some([Unwrap(group_data[g]) EXCEPT !.member_count = k + 1])]
              /\ UNCHANGED << next_group_id, group_status, contribution_individual,
                              contribution_cycle_total, contribution_cycle_count,
                              payout_recipient, now >> ]_vars

\* C12 witness: the second member of a group has joined and holds position 1.
C12_Witness ==
    /\ last.op = "join_group" /\ last.res = "Ok"
    /\ Unwrap(member_profile[<<last.group_id, last.member>>]).payout_position = 1
    /\ member_payout_eligibility[<<last.group_id, last.member>>] = Some(1)
    /\ Len(Unwrap(group_members[last.group_id])) = 2
    /\ Unwrap(group_data[last.group_id]).member_count = 2

NotPending == {"Active", "Paused", "Completed", "Cancelled"}

C14_MemberCountBounded ==
    \A g \in GroupIds :
        IsSome(group_data[g]) =>
            /\ 0 <= Unwrap(group_data[g]).member_count
            /\ Unwrap(group_data[g]).member_count <= Unwrap(group_data[g]).max_members

\* The payout_position of a member's profile.
PositionOf(g, m) == Unwrap(member_profile[<<g, m>>]).payout_position

PositionsDistinct(g) ==
    \A m1, m2 \in MembersOf(g) : PositionOf(g, m1) = PositionOf(g, m2) => m1 = m2

\* C15: in every reachable state the payout positions of the members of a group
\* are pairwise distinct, whatever join_group and assign_payout_positions calls
\* (Sequential, Random, Manual) were made.
C15_PositionsDistinct ==
    \A g \in GroupIds : PositionsDistinct(g)

\* The positions are distinct and each is below the group's member_count.
PositionsInOrder(g) ==
    /\ PositionsDistinct(g)
    /\ \A m \in MembersOf(g) :
          IsSome(group_data[g]) /\ PositionOf(g, m) < Unwrap(group_data[g]).member_count

\* A list of n positions that is a permutation of 0..n-1.
IsPermutation(p) ==
    \A i \in 0..(Len(p) - 1) : \E j \in 1..Len(p) : p[j] = i

\* The last call was a successful Manual assignment of a list that is no
\* permutation of 0..n-1.
ManualOutOfOrder ==
    /\ last.op = "assign_payout_positions" /\ last.res = "Ok"
    /\ last.mode.kind = "Manual"
    /\ ~IsPermutation(last.mode.positions)

\* C15 as amended: the payout positions of a group's members are pairwise distinct
\* (and below member_count) initially and after every call that is not a Manual
\* assignment of a list other than a permutation of 0..n-1: join_group and the
\* Sequential, Random and permutation-Manual assignments keep them so.
C15_DistinctUnlessManual ==
    /\ \A g \in GroupIds : PositionsInOrder(g)
    /\ [][ \A g \in GroupIds :
              (PositionsInOrder(g) /\ ~ManualOutOfOrder') => PositionsInOrder(g)' ]_vars

\* C15 witness: a Random assignment reordered two members, whose positions are
\* distinct.
C15_Witness ==
    /\ last.op = "assign_payout_positions" /\ last.res = "Ok"
    /\ last.mode.kind = "Random"
    /\ Cardinality(MembersOf(last.group_id)) = 2
    /\ PositionsInOrder(last.group_id)
    /\ PositionOf(last.group_id, Unwrap(group_members[last.group_id])[1]) = 1

\* The three fields update_group writes.
UpdatableFields(group) ==
    << group.contribution_amount, group.cycle_duration, group.max_members >>

\* C17: update_group succeeds only on a Pending group; on a group in any other
\* status a call signed by the creator returns InvalidState, and no call changes
\* contribution_amount, cycle_duration or max_members of a stored group once its
\* status is not Pending.
C17_UpdateOnlyWhilePending ==
    [][ /\ (last'.op = "update_group" /\ last'.res = "Ok")
              => UnwrapOr(group_status[last'.group_id], "Pending") = "Pending"
        /\ \A g \in GroupIds :
              (IsSome(group_data[g]) /\ UnwrapOr(group_status[g], "Pending") \in NotPending)
              => /\ ( /\ last'.op = "update_group" /\ last'.group_id = g
                      /\ last'.signer = Unwrap(group_data[g]).creator )
                        => last'.res = "InvalidState"
                 /\ IsSome(group_data'[g])
                        => UpdatableFields(Unwrap(group_data'[g]))
                              = UpdatableFields(Unwrap(group_data[g])) ]_vars

\* C17 witness: the creator's update of an Active group was refused and the group
\* keeps the fields it was created with.
C17_Witness ==
    /\ last.op = "update_group" /\ last.res = "InvalidState"
    /\ group_status[last.group_id] = Some("Active")
    /\ last.signer = Unwrap(group_data[last.group_id]).creator
    /\ Unwrap(group_data[last.group_id]).contribution_amount = 1
    /\ Unwrap(group_data[last.group_id]).cycle_duration = 1

\* C38: in every reachable state every persisted group has contribution_amount > 0,
\* cycle_duration > 0 and max_members >= 2 (Group::validate holds), whatever
\* create_group and update_group calls came before.
C38_PersistedGroupValid ==
    \A g \in GroupIds : IsSome(group_data[g]) => Group_validate(Unwrap(group_data[g]))

(***************************************************************************)
(* Claims checked under SpecIds.                                           *)
(***************************************************************************)
\* The ids under which a group is stored.
StoredGroupIds == { g \in DOMAIN group_data : IsSome(group_data[g]) }

\* C16: the ids returned by successful create_group calls are 1, 2, 3, ... in call
\* order (each is the number of ids issued before it plus one, so they are pairwise
\* distinct and an id is never issued again, also after its group was deleted), and
\* get_total_groups is the number of ids issued so far: 0 at first, one more after
\* each successful create_group, unchanged by every other call.
C16_SequentialIds ==
    /\ get_total_groups = 0
    /\ [][ /\ ( (last'.op = "create_group" /\ last'.res = "Ok")
                => \E id \in DOMAIN group_data :
                     /\ id = last'.group_id
                     /\ id = get_total_groups + 1
                     /\ get_total_groups' = id
                     /\ id \notin StoredGroupIds
                     /\ get_group(id)'.res = "Ok"
                     /\ Unwrap(get_group(id)'.value).id = id )
            /\ ( ~(last'.op = "create_group" /\ last'.res = "Ok")
                => get_total_groups' = get_total_groups ) ]_vars

\* C16 case: the second id is issued after the first group was deleted.
C16_Witness ==
    /\ last.op = "create_group"
    /\ last.res = "Ok"
    /\ last.group_id = 2
    /\ get_total_groups = 2
    /\ StoredGroupIds = {2}

\* C18: delete_group succeeds only on a stored group with member_count = 0, and
\* then removes the group record and the status record, so that get_group returns
\* GroupNotFound; on a group with member_count > 0 it removes nothing, and signed
\* by the creator it returns InvalidState.
C18_DeleteOnlyEmpty ==
    [][ last'.op = "delete_group"
        => \E g \in DOMAIN group_data :
               /\ g = last'.group_id
               /\ ( last'.res = "Ok"
                    => ( /\ IsSome(group_data[g])
                         /\ Unwrap(group_data[g]).member_count = 0
                         /\ group_data' = [group_data EXCEPT ![g] = None]
                         /\ group_status' = [group_status EXCEPT ![g] = None]
                         /\ get_group(g)'.res = "GroupNotFound" ) )
               /\ ( (IsSome(group_data[g]) /\ Unwrap(group_data[g]).member_count > 0)
                    => ( /\ last'.res # "Ok"
                         /\ ( last'.signer = Unwrap(group_data[g]).creator
                              => last'.res = "InvalidState" )
                         /\ group_data' = group_data
                         /\ group_status' = group_status ) ) ]_vars

\* C18 case: the creator's delete_group of a group with a member is refused.
C18_Witness ==
    /\ last.op = "delete_group"
    /\ last.res = "InvalidState"
    /\ IsSome(group_data[last.group_id])
    /\ Unwrap(group_data[last.group_id]).member_count > 0
    /\ group_status[last.group_id] = Some("Pending")

\* C18 case: the creator's delete_group of an empty group removed both records.
C18_Deleted ==
    /\ last.op = "delete_group"
    /\ last.res = "Ok"
    /\ get_group(last.group_id).res = "GroupNotFound"
    /\ group_status[last.group_id] = None

(***************************************************************************)
(* Claims checked under SpecWithdraw.                                      *)
(***************************************************************************)
\* The times of the contributions recorded for a cycle of a group.
ContributionTimes(g, c) ==
    { Unwrap(contribution_individual[k]).timestamp :
        k \in { x \in DOMAIN contribution_individual :
                  x[1] = g /\ x[2] = c /\ IsSome(contribution_individual[x]) } }

\* The last activity time of the current cycle: the time of the most recent
\* contribution recorded for it, started_at if there is none.
LastActivityTime(g) ==
    LET group == Unwrap(group_data[g])
        times == ContributionTimes(g, group.current_cycle)
    IN  IF times = {} THEN group.started_at
        ELSE CHOOSE t \in times : \A u \in times : u <= t

\* C19: a member's emergency_withdraw made while now minus the last activity time
\* of the current cycle is less than 2 x cycle_duration returns InvalidState and
\* leaves the member's profile in place.
C19_EarlyWithdrawRefused ==
    [][ \A g \in GroupIds, m \in Addresses :
          ( /\ last'.op = "emergency_withdraw"
            /\ last'.group_id = g
            /\ last'.member = m
            /\ IsSome(group_data[g])
            /\ IsSome(member_profile[<<g, m>>])
            /\ now - LastActivityTime(g) < 2 * Unwrap(group_data[g]).cycle_duration )
          => ( /\ last'.res = "InvalidState"
               /\ member_profile' = member_profile ) ]_vars

\* The member's contributions over the cycles of cs.
RECURSIVE ContributedOver(_, _, _)
ContributedOver(g, m, cs) ==
    IF cs = {} THEN 0
    ELSE LET c == CHOOSE x \in cs : TRUE
             rec == Get(contribution_individual, <<g, c, m>>)
         IN  (IF rec = None THEN 0 ELSE Unwrap(rec).amount)
                + ContributedOver(g, m, cs \ {c})

\* The member is the stored payout recipient of a cycle up to the current one.
ReceivedPayout(g, m) ==
    \E k \in DOMAIN payout_recipient :
        /\ k[1] = g
        /\ k[2] <= Unwrap(group_data[g]).current_cycle
        /\ payout_recipient[k] = Some(m)

\* The amount a withdrawal of the member is expected to compute.
ExpectedWithdrawal(g, m) ==
    IF ReceivedPayout(g, m) THEN 0
    ELSE ContributedOver(g, m, 0..Unwrap(group_data[g]).current_cycle)

\* C20: a successful emergency_withdraw computes the member's total contributions
\* over cycles 0..=current_cycle if the member has not received a payout and 0
\* otherwise, emits the withdrawal event with that amount exactly when it is
\* nonzero, and removes the member's profile (and nothing else) in both cases.
C20_WithdrawalAmount ==
    [][ \A g \in GroupIds, m \in Addresses :
          ( /\ last'.op = "emergency_withdraw"
            /\ last'.res = "Ok"
            /\ last'.group_id = g
            /\ last'.member = m )
          => ( /\ IsSome(group_data[g])
               /\ IsSome(member_profile[<<g, m>>])
               /\ last'.amount = ExpectedWithdrawal(g, m)
               /\ last'.event =
                     ( IF ExpectedWithdrawal(g, m) > 0
                       THEN Some([ name |-> "emergency_withdrawal", group_id |-> g,
                                   member |-> m,
                                   amount |-> ExpectedWithdrawal(g, m) ])
                       ELSE None )
               /\ member_profile' = [member_profile EXCEPT ![<<g, m>>] = None]
               /\ UNCHANGED << next_group_id, group_data, group_status, group_members,
                               member_payout_eligibility, contribution_individual,
                               contribution_cycle_total, contribution_cycle_count,
                               payout_recipient >> ) ]_vars

\* C20 case: a member who contributed in two earlier cycles and received no
\* payout withdraws the sum, with the event, and the profile is gone.
C20_Witness ==
    /\ last.op = "emergency_withdraw"
    /\ last.res = "Ok"
    /\ last.amount = 2
    /\ IsSome(last.event)
    /\ Unwrap(last.event).amount = 2
    /\ ~ReceivedPayout(last.group_id, last.member)
    /\ member_profile[<<last.group_id, last.member>>] = None

\* C20 case: a member who contributed and received a payout withdraws 0, without
\* an event, and the profile is gone.
C20_PaidWitness ==
    /\ last.op = "emergency_withdraw"
    /\ last.res = "Ok"
    /\ last.amount = 0
    /\ last.event = None
    /\ ReceivedPayout(last.group_id, last.member)
    /\ ContributedOver(last.group_id, last.member,
                       0..Unwrap(group_data[last.group_id]).current_cycle) > 0
    /\ member_profile[<<last.group_id, last.member>>] = None

\* The current cycle of a stored group is not complete: fewer contributors than
\* listed members, and no payout recorded for it.
CycleIncomplete(g) ==
    LET group == Unwrap(group_data[g])
    IN  /\ UnwrapOr(Get(contribution_cycle_count, <<g, group.current_cycle>>), 0)
              < Len(MemberList(g))
        /\ Get(payout_recipient, <<g, group.current_cycle>>) = None

\* C26: advance_group_to_next_cycle on a group whose current cycle is not yet
\* complete returns CycleNotComplete and does not change current_cycle.
C26_IncompleteCycleNotAdvanced ==
    [][ \A g \in GroupIds :
          ( /\ last'.op = "advance_group_to_next_cycle"
            /\ last'.group_id = g
            /\ IsSome(group_data[g])
            /\ CycleIncomplete(g) )
          => /\ last'.res = "CycleNotComplete"
             /\ group_data' = group_data ]_vars

(***************************************************************************)
(* Claims checked under SpecAssign.                                        *)
(***************************************************************************)
\* The positions held by the listed members of a group.
AssignedPositions(g) == { PositionOf(g, m) : m \in Range(MemberList(g)) }

\* The last call was a successful assign_payout_positions in the given mode.
AssignedIn(kind) ==
    /\ last.op = "assign_payout_positions"
    /\ last.res = "Ok"
    /\ last.mode.kind = kind

\* C21: after assign_payout_positions in Sequential mode on a Pending group with n
\* members, the i-th member of the member list (0-indexed) has payout position i,
\* so the assigned positions are exactly 0..n-1 with no repeats.
C21_SequentialPositions ==
    AssignedIn("Sequential")
    => LET g == last.group_id
           n == Len(MemberList(g))
       IN  /\ \A i \in 0..(n - 1) : PositionOf(g, VecGet(MemberList(g), i)) = i
           /\ AssignedPositions(g) = 0..(n - 1)

\* The member list names each address at most once.
ListedOnce(g) ==
    \A i, j \in 1..Len(MemberList(g)) : MemberList(g)[i] = MemberList(g)[j] => i = j

\* The statement of C21 on the groups whose member list names no address twice.
C21_OnDistinctList ==
    \/ AssignedIn("Sequential") /\ ~ListedOnce(last.group_id)
    \/ C21_SequentialPositions

\* C29: after assign_payout_positions in Random mode on a Pending group with n
\* members, whatever the seed, the assigned positions are a permutation of 0..n-1:
\* each is below n, no two members share a position, and every position is held.
C29_RandomPermutation ==
    AssignedIn("Random")
    => LET g == last.group_id
           n == Len(MemberList(g))
       IN  /\ \A m \in Range(MemberList(g)) : PositionOf(g, m) < n
           /\ \A i, j \in 1..n :
                 PositionOf(g, MemberList(g)[i]) = PositionOf(g, MemberList(g)[j])
                    => i = j
           /\ AssignedPositions(g) = 0..(n - 1)

\* The statement of C29 on the groups whose member list names no address twice.
C29_OnDistinctList ==
    \/ AssignedIn("Random") /\ ~ListedOnce(last.group_id)
    \/ C29_RandomPermutation

\* The positions of the group's members, in the profiles and in the eligibility
\* records.
StoredPositions(g) ==
    [ m \in Addresses |->
        [ profile |-> IF IsSome(member_profile[<<g, m>>])
                      THEN Some(PositionOf(g, m)) ELSE None,
          eligibility |-> member_payout_eligibility[<<g, m>>] ] ]

\* C30: assign_payout_positions in Manual mode with a position list whose length
\* differs from the number of members returns InvalidState and changes no member's
\* position; with a list of equal length the i-th member of the member list
\* receives the i-th supplied position.
C30_ManualPositions ==
    [][ \A g \in GroupIds :
          ( /\ last'.op = "assign_payout_positions"
            /\ last'.group_id = g
            /\ last'.mode.kind = "Manual"
            /\ IsSome(group_data[g])
            /\ last'.caller = Unwrap(group_data[g]).creator
            /\ IsSome(group_members[g]) )
          => IF Len(last'.mode.positions) # Len(MemberList(g))
             THEN /\ last'.res = "InvalidState"
                  /\ StoredPositions(g)' = StoredPositions(g)
             ELSE last'.res = "Ok"
                  => \A i \in 1..Len(MemberList(g)) :
                        \E m \in Addresses :
                           /\ m = MemberList(g)[i]
                           /\ PositionOf(g, m)' = last'.mode.positions[i] ]_vars

\* The statement of C30 on the groups whose member list names no address twice.
C30_OnDistinctList ==
    [][ \A g \in GroupIds :
          ( /\ last'.op = "assign_payout_positions"
            /\ last'.group_id = g
            /\ last'.mode.kind = "Manual"
            /\ IsSome(group_data[g])
            /\ last'.caller = Unwrap(group_data[g]).creator
            /\ IsSome(group_members[g])
            /\ ListedOnce(g) )
          => IF Len(last'.mode.positions) # Len(MemberList(g))
             THEN /\ last'.res = "InvalidState"
                  /\ StoredPositions(g)' = StoredPositions(g)
             ELSE last'.res = "Ok"
                  => \A i \in 1..Len(MemberList(g)) :
                        \E m \in Addresses :
                           /\ m = MemberList(g)[i]
                           /\ PositionOf(g, m)' = last'.mode.positions[i] ]_vars

\* C27: once a group's status has left Pending, no member's payout position (the
\* profile field or the eligibility record) changes again: a profile keeps its
\* position, no eligibility record is rewritten, and assign_payout_positions by
\* the creator returns InvalidState in every mode and writes nothing.
C27_PositionsFrozenAfterPending ==
    [][ \A g \in GroupIds :
          (IsSome(group_data[g]) /\ StatusOf(g) \in NotPending)
          => /\ StatusOf(g)' \in NotPending
             /\ \A m \in Addresses :
                   /\ IsSome(member_profile'[<<g, m>>])
                        => /\ IsSome(member_profile[<<g, m>>])
                           /\ PositionOf(g, m)' = PositionOf(g, m)
                   /\ member_payout_eligibility'[<<g, m>>] =
                         member_payout_eligibility[<<g, m>>]
             /\ ( (last'.op = "assign_payout_positions" /\ last'.group_id = g)
                  => /\ member_profile' = member_profile
                     /\ ( last'.caller = Unwrap(group_data[g]).creator
                          => last'.res = "InvalidState" ) ) ]_vars

\* C27 case: the creator's Sequential assignment on an Active group with two
\* members is refused.
C27_Witness ==
    /\ last.op = "assign_payout_positions"
    /\ last.res = "InvalidState"
    /\ last.mode.kind = "Sequential"
    /\ StatusOf(last.group_id) = "Active"
    /\ last.caller = Unwrap(group_data[last.group_id]).creator
    /\ Cardinality(MembersOf(last.group_id)) = 2

\* C28: assign_payout_positions on a stored group called by an address other than
\* the creator returns Unauthorized and changes no member's position, whatever
\* the mode and the group's status.
C28_OnlyCreatorAssigns ==
    [][ \A g \in GroupIds :
          ( /\ last'.op = "assign_payout_positions"
            /\ last'.group_id = g
            /\ IsSome(group_data[g])
            /\ last'.caller # Unwrap(group_data[g]).creator )
          => /\ last'.res = "Unauthorized"
             /\ StoredPositions(g)' = StoredPositions(g)
             /\ member_profile' = member_profile
             /\ member_payout_eligibility' = member_payout_eligibility ]_vars

\* C28 case: a member who is not the creator asks for a Manual order that would
\* change the positions of a Pending group, and is refused.
C28_Witness ==
    /\ last.op = "assign_payout_positions"
    /\ last.res = "Unauthorized"
    /\ last.mode = Manual(<<1, 0>>)
    /\ StatusOf(last.group_id) = "Pending"
    /\ last.caller \in MembersOf(last.group_id)
    /\ MemberList(last.group_id) = <<"a1", "a2">>
    /\ PositionOf(last.group_id, "a1") = 0

\* C28 case: the refusal does not depend on the status.
C28_ActiveWitness ==
    /\ last.op = "assign_payout_positions"
    /\ last.res = "Unauthorized"
    /\ StatusOf(last.group_id) = "Active"

\* C34: in every reachable state, for every member with a MemberProfile in a group,
\* the member_payout_eligibility record of the member exists and holds the
\* payout_position of the profile, whatever join_group, emergency_withdraw and
\* assign_payout_positions calls came before.
C34_EligibilityMatchesProfile ==
    \A g \in GroupIds, m \in Addresses :
        IsSome(member_profile[<<g, m>>])
        => member_payout_eligibility[<<g, m>>] = Some(PositionOf(g, m))

\* C34 witness: a Manual assignment reversed the join order of two members, and
\* the first member's profile and lookup record both hold the new position 1.
C34_Witness ==
    /\ AssignedIn("Manual")
    /\ last.mode.positions = <<1, 0>>
    /\ ListedOnce(last.group_id)
    /\ LET m == VecGet(MemberList(last.group_id), 0)
       IN  /\ PositionOf(last.group_id, m) = 1
           /\ member_payout_eligibility[<<last.group_id, m>>] = Some(1)

\* get_member_count of the contract: the member_count field of the stored group.
get_member_count(g) == Unwrap(group_data[g]).member_count

\* PoolCalculator::get_member_count: the length of the stored member list.
pool_get_member_count(g) == Len(MemberList(g))

\* The number of MemberProfile records of a group.
ProfileCount(g) == Cardinality({ m \in Addresses : IsSome(member_profile[<<g, m>>]) })

\* C36: in every reachable state of a group, member_count, the length of the
\* member list and the number of MemberProfile records are equal, whatever
\* join_group and emergency_withdraw calls came before.
C36_MemberCountsAgree ==
    \A g \in GroupIds :
        IsSome(group_data[g])
        => /\ get_member_count(g) = pool_get_member_count(g)
           /\ pool_get_member_count(g) = ProfileCount(g)

\* C37: in every reachable state the member list of a group names each address at
\* most once, also after a member left through emergency_withdraw and joined
\* again while the group is Pending.
C37_MemberListedOnce ==
    \A g \in GroupIds : ListedOnce(g)

(***************************************************************************)
(* Claims checked under SpecQueries.                                       *)
(***************************************************************************)
\* The current cycle of a stored group has the contributions of all its members
\* and no recorded payout.
PayoutOutstanding(g) ==
    LET group == Unwrap(group_data[g])
    IN  /\ UnwrapOr(Get(contribution_cycle_count, <<g, group.current_cycle>>), 0)
              >= group.member_count
        /\ Get(payout_recipient, <<g, group.current_cycle>>) = None

PoolNotComputable(g) ==
    LET group == Unwrap(group_data[g])
    IN  \/ group.contribution_amount <= 0
        \/ group.member_count = 0
        \/ group.contribution_amount * group.member_count > I128_MAX

C22_PaidWitness ==
    /\ last.op = "is_payout_due"
    /\ last.res = "Ok"
    /\ last.value = FALSE
    /\ Unwrap(group_data[last.group_id]).status = "Active"
    /\ UnwrapOr(Get(contribution_cycle_count,
                     <<last.group_id, Unwrap(group_data[last.group_id]).current_cycle>>), 0)
          >= Unwrap(group_data[last.group_id]).member_count
    /\ ~PayoutOutstanding(last.group_id)

\* C22 case: an Active group whose total pool is beyond the i128 range.
C22_PoolErrorWitness ==
    /\ last.op = "is_payout_due"
    /\ last.res = "InternalError"
    /\ Unwrap(group_data[last.group_id]).status = "Active"
    /\ PayoutOutstanding(last.group_id)

(***************************************************************************)
(* Claims checked under SpecHistory.                                       *)
(***************************************************************************)
\* The smaller of the limit and the page cap.
PageLimit(limit) == IF limit > HISTORY_PAGE_CAP THEN HISTORY_PAGE_CAP ELSE limit

\* The cycles of the page [start_cycle, start_cycle + min(limit, cap)), clipped to
\* current_cycle, in which the member has a stored record.
PageCycles(g, m, start_cycle, limit) ==
    { c \in Cycles :
        /\ start_cycle <= c
        /\ c < start_cycle + PageLimit(limit)
        /\ c <= Unwrap(group_data[g]).current_cycle
        /\ IsSome(contribution_individual[<<g, c, m>>]) }

RECURSIVE RecordsAscending(_, _, _)
\* The member's records of the cycles of cs in ascending cycle order.
RecordsAscending(g, m, cs) ==
    IF cs = {} THEN << >>
    ELSE LET c == CHOOSE x \in cs : \A y \in cs : x <= y
         IN  <<Unwrap(contribution_individual[<<g, c, m>>])>>
                \o RecordsAscending(g, m, cs \ {c})

\* C24: get_member_contribution_history(group, member, start_cycle, limit) on a
\* stored group returns exactly the member's stored records whose cycle c
\* satisfies start_cycle <= c < start_cycle + min(limit, 50) and
\* c <= current_cycle, in ascending cycle order, hence never more than
\* min(limit, 50) records.
C24_HistoryPage ==
    (last.op = "get_member_contribution_history" /\ IsSome(group_data[last.group_id]))
    => /\ last.res = "Ok"
       /\ last.value = RecordsAscending(last.group_id, last.member,
                           PageCycles(last.group_id, last.member,
                                      last.start_cycle, last.limit))
       /\ Len(last.value) <= PageLimit(last.limit)

(***************************************************************************)
(* Claims checked under SpecShuffle.                                       *)
(***************************************************************************)
\* The products seed * (i + 1) of shuffle on a list of length n fit in u64.
SeedFits(seed, n) == seed * n <= U64_MAX

RECURSIVE SwapWithFirst(_, _)
\* The list after swapping element i, then i - 1, ..., then 1 with element 0.
SwapWithFirst(vec, i) ==
    IF i < 1 THEN vec ELSE SwapWithFirst(VecSwap(vec, i, 0), i - 1)

\* C40: for every list of length n and every two seeds s1, s2 with s * n < 2^64,
\* shuffle gives the same output for both seeds: the swap index j is 0 at every
\* step, so the output depends on the list alone and not on the seed.
C40_ShuffleIgnoresSeed ==
    (last.op = "shuffle" /\ SeedFits(last.seed, Len(last.vec)))
    => /\ last.out = SwapWithFirst(last.vec, Len(last.vec) - 1)
       /\ \A s2 \in ShuffleSeedInputs :
              SeedFits(s2, Len(last.vec)) => shuffle(last.vec, s2) = last.out

\* C40 witness: the positions 0, 1, 2 shuffled under the non-zero seed 5, whose
\* products fit in u64; the output is the one of seed 0.
C40_Witness ==
    /\ last.op = "shuffle"
    /\ last.vec = <<0, 1, 2>>
    /\ last.seed = 5
    /\ SeedFits(last.seed, 3)
    /\ last.out = <<1, 2, 0>>
    /\ last.out = shuffle(last.vec, 0)

(***************************************************************************)
(* Claims checked under SpecDeadline.                                      *)
(***************************************************************************)
\* started_at + (c + 1) * cycle_duration of a group, in unbounded integers.
ExactDeadline(group, c) == group.started_at + (c + 1) * group.cycle_duration

\* C35: for a started group get_contribution_deadline(group, c) is
\* started_at + (c + 1) * cycle_duration whenever that value fits in u64 and
\* Overflow otherwise (never a wrapped value), so the deadlines of cycles c and
\* c + 1 differ by cycle_duration; for a group that has not started it is
\* InvalidState.
C35_ContributionDeadline ==
    (last.op = "get_contribution_deadline" /\ IsSome(group_data[last.group_id]))
    => LET group == Unwrap(group_data[last.group_id])
           following == get_contribution_deadline(last.group_id, last.cycle_number + 1)
       IN  /\ ~group.started => last.res = "InvalidState"
           /\ (group.started /\ ExactDeadline(group, last.cycle_number) <= U64_MAX)
                 => (last.res = "Ok"
                     /\ last.value = ExactDeadline(group, last.cycle_number))
           /\ (group.started /\ ExactDeadline(group, last.cycle_number) > U64_MAX)
                 => last.res = "Overflow"
           /\ (last.res = "Ok" /\ following.res = "Ok")
                 => following.value - last.value = group.cycle_duration

\* C35 witness: the deadline of a later cycle of a group started after time 0,
\* whose following cycle has a deadline too.
C35_Witness ==
    /\ last.op = "get_contribution_deadline"
    /\ last.res = "Ok"
    /\ last.cycle_number >= 1
    /\ Unwrap(group_data[last.group_id]).started_at >= 1
    /\ last.value = ExactDeadline(Unwrap(group_data[last.group_id]), last.cycle_number)
    /\ get_contribution_deadline(last.group_id, last.cycle_number + 1).res = "Ok"

\* C35 witness of the overflow: the product fits in u64 and the deadline does not.
C35_OverflowWitness ==
    /\ last.op = "get_contribution_deadline"
    /\ last.res = "Overflow"
    /\ LET group == Unwrap(group_data[last.group_id])
       IN  /\ group.started
           /\ last.cycle_number * group.cycle_duration <= U64_MAX
           /\ ExactDeadline(group, last.cycle_number) > U64_MAX

\* C35 witness of the group that has not started.
C35_NotStartedWitness ==
    /\ last.op = "get_contribution_deadline"
    /\ last.res = "InvalidState"
    /\ ~Unwrap(group_data[last.group_id]).started

(***************************************************************************)
(* Claims checked under SpecPayoutOrder.                                   *)
(***************************************************************************)
\* The members of a group that are the recorded payout recipient of no cycle.
AwaitingPayout(g) == { m \in MembersOf(g) : PayoutCycles(g, m) = {} }

\* C31: get_payout_queue(group) returns exactly the members of the group who are
\* not the recorded payout recipient of any cycle, each once, in ascending order
\* of payout_position; it is empty when every member is a recorded recipient.
C31_PayoutQueue ==
    ( /\ last.op = "get_payout_queue"
      /\ IsSome(group_data[last.group_id])
      /\ IsSome(group_members[last.group_id]) )
    => /\ last.res = "Ok"
       /\ Range(last.value) = AwaitingPayout(last.group_id)
       /\ Len(last.value) = Cardinality(AwaitingPayout(last.group_id))
       /\ \A i, j \in 1..Len(last.value) :
              i < j => PositionOf(last.group_id, last.value[i])
                          <= PositionOf(last.group_id, last.value[j])

\* C32: validate_payout_recipient(group, candidate) returns true exactly when the
\* candidate has a member profile, has not received a payout and holds the
\* position equal to the group's current_cycle; so it is true for the first
\* joiner at cycle 0.
C32_ValidRecipient ==
    (last.op = "validate_payout_recipient" /\ IsSome(group_data[last.group_id]))
    => /\ last.res = "Ok"
       /\ last.value
             = ( /\ IsSome(member_profile[<<last.group_id, last.recipient>>])
                 /\ ~has_received_payout(last.group_id, last.recipient).value
                 /\ PositionOf(last.group_id, last.recipient)
                       = Unwrap(group_data[last.group_id]).current_cycle )

\* C33: is_complete(group) returns true for every group whose status is Completed,
\* also when its current_cycle is below max_members.
C33_CompletedIsComplete ==
    ( /\ last.op = "is_complete"
      /\ IsSome(group_data[last.group_id])
      /\ \/ StatusOf(last.group_id) = "Completed"
         \/ Unwrap(group_data[last.group_id]).status = "Completed" )
    => (last.res = "Ok" /\ last.value)

====
